---- MODULE Spec2Model ----
(***************************************************************************)
(* Model of oservices.on_off_system.OnOffSystem: the three-state lifecycle *)
(* (off -> on -> shutting_down -> off) driven by start() coroutines, the   *)
(* shut_down() request, the tracked tasks of _ensure_future and the        *)
(* shutdown sequence _shut_down().  Every action is one run of a coroutine *)
(* between two suspension points of the asyncio loop.                      *)
(* Model of oservices.processes: the registry of children and its drain,   *)
(* register_exit and the signal handlers, the main thread of a             *)
(* GracefulProcess child on Windows, and PIDManager with its PID file, its  *)
(* polling loops and its guards.                                           *)
(* Model of oservices.asyncio: the process-wide thread pool and process    *)
(* pool, obtained by calls that several threads may make.                  *)
(* Model of oservices.conf and oservices.component: the standard           *)
(* configuration of the file and directory fields, the build of the        *)
(* configuration tree and the load of a configuration file.                *)
(***************************************************************************)
EXTENDS Integers, Sequences, FiniteSets, TLC

\* number of start() coroutines that may be created
MaxStarts == 2
\* number of tasks that may be spawned with _ensure_future
MaxTasks == 2
\* number of tasks spawned where several start() coroutines run
MaxTasksManyStarts == 1
\* number of calls of wait_for_on / wait_for_shutting_down / wait_for_off
MaxWaiters == 1
\* number of children that may be registered for cleanup
MaxChildren == 2
\* number of interrupt / terminate signals delivered to the process
MaxSignals == 2
\* number of signals delivered where both platforms and both roles are run
MaxSignalsManyRoles == 1
\* number of process ids of the system besides that of the PIDManager's process
MaxPids == 2
\* number of calls of get_thread_pool / get_process_pool
MaxPoolCalls == 2
\* number of calls made on the configurations and on the component
MaxConfOps == 4

Starts == 1..MaxStarts
Tasks == 1..MaxTasks
Waiters == 1..MaxWaiters
\* children of a type that can be registered; a child of an even number is
\* a ProcessPoolExecutor, the others are mp.Process or GracefulProcess
Children == 1..MaxChildren
\* an object that is neither a process nor a pool
UnknownChild == MaxChildren + 1
\* no child
NoChild == MaxChildren + 2
\* the thread of the signal handlers and of the loop, and another thread
Threads == {"main", "aux"}
\* the configurations of tests/conf_util.py
Confs == {"simple_conf", "with_hd_conf"}
\* the directories given as base_dir_path: "tmp1" exists, "tmp2" does not
BaseNames == {"tmp1", "tmp2"}
\* service_name and component_name given to standard_configure and build
ServiceName == "service"
ComponentName == "component"
\* Component._INFO
INFO == <<"__info__.json">>
\* the categories of build, in the order of their creation
Categories == <<"data", "logging", "static", "conf">>

\* values of configuration fields: an int, a str (a path is a str, kept as
\* its sequence of components, a component being the sequence of the parts
\* that "-" joins), None, and the dict(ENGINE=..., NAME=inner) of sqlite_db
NoInner == [t |-> "absent", s |-> <<>>]
IntVal(n) == [t |-> "int", n |-> n, s |-> <<>>, inner |-> NoInner]
StrVal(p) == [t |-> "str", n |-> 0, s |-> p, inner |-> NoInner]
NoneVal == [t |-> "None", n |-> 0, s |-> <<>>, inner |-> NoInner]
DictVal(name) == [t |-> "dict", n |-> 0, s |-> <<>>,
                  inner |-> [t |-> name.t, s |-> name.s]]
\* a field that is no file or directory field has no suffix and category
Plain(v) == [kind |-> "plain", suffix |-> "", category |-> "", setter |-> "",
             value |-> v]

\* the class attributes of the managers _SimpleConfManager and _WithHDConf
Fields(m) ==
    IF m = "simple_conf"
    THEN [int |-> Plain(IntVal(1)), str |-> Plain(StrVal(<<<<"str">>>>))]
    ELSE [int |-> Plain(IntVal(1)), str |-> Plain(StrVal(<<<<"str">>>>)),
          log_file_path |-> [kind |-> "file", suffix |-> "main.log",
                             category |-> "logging", setter |-> "setattr",
                             value |-> NoneVal],
          db_dir_path |-> [kind |-> "dir", suffix |-> "adb", category |-> "data",
                           setter |-> "setattr", value |-> NoneVal],
          sqlite_db |-> [kind |-> "file", suffix |-> "db.sqlite3",
                         category |-> "data", setter |-> "setitem_NAME",
                         value |-> DictVal(NoneVal)]]

\* the conf_type given to the constructor of each manager
conf_type(m) == IF m = "simple_conf" THEN "package" ELSE "component"

\* os.path.join(base_dir_path): the path of a base directory
BasePath(b) == <<<<b>>>>
\* os.path.join(p, name)
Join(p, name) == Append(p, name)
\* os.path.dirname
Parent(p) == SubSeq(p, 1, Len(p) - 1)
\* ConfigurationManager.conf_keys
conf_keys(m) == DOMAIN Fields(m)
\* ConfigurationManager.to_conf: the Configuration made of the field values
to_conf(m) == [values |-> [k \in conf_keys(m) |-> Fields(m)[k].value],
               was_set_by_user |-> {}, CONF_PATH |-> <<>>]
\* Configuration.to_dict
to_dict(conf) == conf.values

\* `_thread_pool = None` / `_process_pool = None`
NoPool == 0
\* the n-th ProcessPoolExecutor created (an even number, as the pools of
\* Children) and the n-th ThreadPoolExecutor created
ProcessPoolObj(n) == 2 * (NoChild + n)
ThreadPoolObj(n) == 2 * (NoChild + n) + 1
PoolObjs == {ProcessPoolObj(n) : n \in 1..MaxPoolCalls}
                \cup {ThreadPoolObj(n) : n \in 1..MaxPoolCalls}
\* a thread that is in no call of get_thread_pool / get_process_pool
IdleCall == [fn |-> "none", pc |-> "idle", register_as_child |-> FALSE,
             no_process |-> FALSE, nested |-> FALSE, got |-> NoPool]

\* OnOffSystem.ON / OFF / SHUTTING_DOWN
ON == "on"
OFF == "off"
SHUTTING_DOWN == "shutting_down"

\* values of (*args, **kwargs) given to shut_down; "empty" is ((), {})
EmptyArgs == "empty"
ShutDownArgs == {"empty", "a"}
\* what a developer hook (_setup, _async_cleanup, _sync_cleanup) may do
HookOutcomes == {"ok", "TypeError", "Exception"}
\* what binding the arguments of a hook call may do
CallOutcomes == {"ok", "TypeError"}
\* task.exception() of a task that is done: None, or what its coroutine raised
TaskExceptions == {"None", "Exception"}

\* what terminate() / shutdown() of a child may do
StopOutcomes == {"ok", "raises"}

\* the process ids of the system, of one and of two digits
Pids == {13 * i + 4 : i \in 0..MaxPids}
\* os.getpid() in the process of the PIDManager
OwnPid == 13 * MaxPids + 4
\* no PID file at the path
Absent == [exists |-> FALSE, text |-> <<>>]
\* self._process_ before the first resolution (None) and after one that
\* failed (False)
ProcessNone == [kind |-> "None", pid |-> 0]
ProcessFalse == [kind |-> "False", pid |-> 0]

\* platform.system(): "Darwin" takes the branches of "Linux"
Platforms == {"Linux", "Windows"}
\* signal.SIGINT and signal.SIGTERM
Signals == {"SIGINT", "SIGTERM"}

\* messages of logger.warning / logger.critical
WarnStart == "asked to start although not off"
WarnShutDown == "asked to shut_down although not on"
WarnPending == "some tasks are still pending after timeout although they shouldn't"
CritTask == "async task raised an exception"

VARIABLES
    state,              \* self._state
    is_on_event,        \* self._is_on_event.is_set()
    shut_down_event,    \* self._shut_down_event.is_set()
    is_off_event,       \* self._is_off_event.is_set()
    asc,                \* self._asc
    shut_down_args,     \* (self._shut_down_args, self._shut_down_kwargs)
    pc,                 \* position of each start() coroutine
    drain_fs,           \* the futures each _shut_down is waiting for in asyncio.wait
    wait_result,        \* (done, pending) of the asyncio.wait that returned in the last step
    task,               \* status of each task made by _ensure_future
    store_pc,           \* position of each _store_and_clear_task coroutine
    logged,             \* warning and critical messages logged by the last step
    events,             \* per start(): the steps of its shutdown sequence
    hook_args,          \* the arguments each cleanup hook got at its last call
    calls,              \* number of invocations of each developer hook
    passed_args,        \* arguments of the last shut_down() made while on
    error,              \* what start() raised in the last step for a refused call of _setup
    waiter,             \* the calls of wait_for_on / _shutting_down / _off
    runner,             \* the call of run(f, handle_signals), a record
    registry            \* the module processes (registry, handler), the pools, the
                        \* configurations and the file system: a record

\* position of run(f, handle_signals)
run_pc == runner.pc
\* number of invocations of the f given to run
f_calls == runner.f_calls
\* run installed raise_exit for SIGINT and SIGTERM
signal_handlers == runner.signal_handlers
\* per value of the arguments, the number of shut_down calls that made the
\* transition from on to shutting_down (counted by shut_down_counted)
accepted == runner.accepted
interrupted_on == runner.interrupted_on

\* processes._children_objects
children_objects == registry.children_objects
\* main thread: the calls of _cleanup_children in progress
stack == registry.stack
\* terminate() / shutdown() calls of the last drain
stop_log == registry.stop_log
\* _children_objects when the last drain took the lock
drain_snapshot == registry.drain_snapshot
\* exception raised by the last call on the registry
api_error == registry.api_error
\* sys.exit(0) was called by _default_exit
exited == registry.exited
\* number of signals delivered so far
signals == registry.signals
\* children registered and not unregistered or popped since
reg_order == registry.reg_order
\* processes._sys_name ("unset" until the module is imported)
sys_name == registry.sys_name
\* the handler of each signal: "default", "SIG_IGN" or "_default_exit"
handlers == registry.handlers
\* the thread and the argument of the last call of register_exit
exit_call == registry.exit_call
\* the last signal delivered
last_signal == registry.last_signal
\* the process was ended by the default action of a signal
killed == registry.killed
\* position of the main thread of a GracefulProcess child in _run_wrapper
wrapper_pc == registry.wrapper.pc
\* GracefulProcess._stop_event.is_set()
stop_event == registry.wrapper.stop_event
\* t.is_alive() of the worker thread of _run_wrapper
worker_alive == registry.wrapper.worker_alive
\* the file at PIDManager._pid_path: whether it exists, and its decimal text
pid_file == registry.pidm.file
\* PIDManager._process_: None, False or a psutil.Process of a pid
process_ == registry.pidm.process_
\* the ids of the processes that run
alive == registry.pidm.alive
\* the process id last written to the file (0 before any write)
written == registry.pidm.written
\* the last call on the PIDManager: what it returned or raised, what it
\* logged, whether it called os.remove, the pid it sent a termination to
pid_last == registry.pidm.last
\* the call of wait_for_on / wait_for_off in progress and its position
poll == registry.pidm.poll
\* per process: where it is in `check_is_off(); register()` on the path
guard == registry.pidm.guard
\* oservices.asyncio._thread_pool
thread_pool == registry.pools.thread_pool
\* oservices.asyncio._process_pool
process_pool == registry.pools.process_pool
\* number of ThreadPoolExecutor / ProcessPoolExecutor objects created
pools_made == registry.pools.made
\* number of calls of get_thread_pool / get_process_pool made by the program
pool_calls == registry.pools.n_calls
\* the pools that the calls of each function returned so far
pools_returned == registry.pools.returned
\* per thread: its call of get_thread_pool / get_process_pool in progress
pool_call_of == registry.pools.call
\* the directories, the conf files and the info files of the file system
file_system == registry.confsys.fs
\* per manager, its Configuration object: the values of the fields,
\* ConfigurationManager._was_set_by_user, CONF_PATH
configuration == registry.confsys.cfg
\* the Component: whether it was created, and its _confs
component == registry.confsys.component
\* per configuration: the calls made on it since its last standard_configure
\* (phase), the base directory of that call, its dict before that call and
\* the dict that the last build wrote
conf_hist == registry.confsys.hist
\* the last call on a configuration or on the component: its base directory,
\* what it returned and what it raised
conf_last == registry.confsys.last
\* number of calls made on the configurations and on the component
conf_ops == registry.confsys.n_ops

run_vars == <<runner>>

registry_vars == <<registry>>

system_vars == <<state, is_on_event, shut_down_event, is_off_event, asc,
                 shut_down_args, pc, drain_fs, wait_result, task, store_pc,
                 logged, events, hook_args, calls, passed_args, error, waiter>>

vars == <<system_vars, run_vars, registry_vars>>

flags == <<is_on_event, shut_down_event, is_off_event>>

----------------------------------------------------------------------------
\* pure parts of the code

\* mutant: the ON branch forgets to clear the off event
set_state_keeps_off(s) ==
    [on |-> s = ON, shutting_down |-> s = SHUTTING_DOWN,
     off |-> s = OFF \/ s = ON, state |-> s]

\* mutant: the SHUTTING_DOWN branch forgets to set the shut down event
set_state_no_wakeup(s) ==
    [on |-> s = ON, shutting_down |-> FALSE,
     off |-> s = OFF, state |-> s]

\* _set_state: the value of the three events and of _state afterwards
set_state(s) ==
    IF s = ON
    THEN [on |-> TRUE, shutting_down |-> FALSE, off |-> FALSE, state |-> s]
    ELSE IF s = SHUTTING_DOWN
    THEN [on |-> FALSE, shutting_down |-> TRUE, off |-> FALSE, state |-> s]
    ELSE [on |-> FALSE, shutting_down |-> FALSE, off |-> TRUE, state |-> s]

\* mutant: every awaited future is reported as pending
wait_pending_all(fs, tk) == fs

\* asyncio.wait(fs, timeout): the futures of fs that are not done at the end
wait_pending(fs, tk) == {t \in fs : tk[t] = "running"}

\* mutant: the timeout cancels what is still pending (as asyncio.wait_for)
wait_effect_cancels(tk, pend) ==
    [t \in Tasks |-> IF t \in pend THEN "cancelled" ELSE tk[t]]

\* asyncio.wait(fs, timeout): the tasks afterwards (pending ones untouched)
wait_effect(tk, pend) == tk

\* mutant: the state is declared off before _sync_cleanup is called
shut_down_tail_off_first(r, args) ==
    IF r = "ok"
    THEN [log |-> <<"off", "sync_cleanup_begin", "sync_cleanup_end">>,
          given |-> args, off |-> TRUE, args |-> EmptyArgs]
    ELSE [log |-> <<"off", "sync_cleanup_begin">>,
          given |-> args, off |-> TRUE, args |-> args]

\* mutant: the stored arguments are cleared before _sync_cleanup is called
shut_down_tail_clears_first(r, args) ==
    IF r = "ok"
    THEN [log |-> <<"sync_cleanup_begin", "sync_cleanup_end", "off">>,
          given |-> EmptyArgs, off |-> TRUE, args |-> EmptyArgs]
    ELSE [log |-> <<"sync_cleanup_begin">>,
          given |-> EmptyArgs, off |-> FALSE, args |-> EmptyArgs]

\* mutant: the stored arguments are not cleared
shut_down_tail_keeps_args(r, args) ==
    IF r = "ok"
    THEN [log |-> <<"sync_cleanup_begin", "sync_cleanup_end", "off">>,
          given |-> args, off |-> TRUE, args |-> args]
    ELSE [log |-> <<"sync_cleanup_begin">>,
          given |-> args, off |-> FALSE, args |-> args]

\* end of _shut_down: call _sync_cleanup (outcome r), clear the stored
\* arguments, declare the off state; an exception of the hook leaves _shut_down
shut_down_tail(r, args) ==
    IF r = "ok"
    THEN [log |-> <<"sync_cleanup_begin", "sync_cleanup_end", "off">>,
          given |-> args, off |-> TRUE, args |-> EmptyArgs]
    ELSE [log |-> <<"sync_cleanup_begin">>,
          given |-> args, off |-> FALSE, args |-> args]

\* mutant: shut_down never returns early
shut_down_always_accepted(is_on) == FALSE

\* shut_down: `if not self.is_on` (warn and return)
shut_down_refused(is_on) == ~is_on

\* mutant: asyncio.wait without a timeout returns when nothing is pending
wait_returns_no_timeout(pend) == pend = {}

\* asyncio.wait(fs, timeout): it returns when all are done or, the timeout
\* being finite, when it has elapsed
wait_returns(pend) == TRUE

\* mutant: the TypeError of a hook call leaves start() as it is
start_error_not_wrapped(r) == r

\* start: `except TypeError: raise _AsyncUtilError(...)` around the call of
\* _setup; any other exception leaves start() unchanged
start_error(r) == IF r = "TypeError" THEN "_AsyncUtilError" ELSE r

\* Event.wait(): `if self._value: return True`, else suspend on a new future
event_wait(is_set) == IF is_set THEN "returned" ELSE "suspended"

\* mutant: a woken waiter checks the event again and suspends if it is clear
event_wait_resumed_rechecks(is_set) == IF is_set THEN "returned" ELSE "suspended"

\* Event.wait(): `await fut; return True` once set() resolved the future
event_wait_resumed(is_set) == "returned"

\* Event.set() of the event of state e: the future of every waiter suspended
\* on it is resolved
event_set(wt, e) ==
    [w \in DOMAIN wt |-> IF wt[w].ev = e /\ wt[w].st = "suspended"
                          THEN [wt[w] EXCEPT !.st = "woken"] ELSE wt[w]]

\* the type of a child, as the isinstance tests see it
ChildKind(ch) ==
    IF ch = UnknownChild THEN "other"
    ELSE IF ch % 2 = 0 THEN "pool" ELSE "process"

\* the elements of a list
Elems(l) == {l[i] : i \in DOMAIN l}

\* list.remove(ch): the list without the first occurrence of ch
list_remove(l, ch) ==
    LET i == CHOOSE k \in DOMAIN l : l[k] = ch /\ \A j \in 1..(k - 1) : l[j] # ch
    IN SubSeq(l, 1, i - 1) \o SubSeq(l, i + 1, Len(l))

\* mutant: every object is accepted
is_child_type_any(k) == TRUE

\* register_child_for_cleanup: `isinstance(child, (mp.Process,
\* GracefulProcess, ProcessPoolExecutor))`
is_child_type(k) == k \in {"process", "pool"}

\* mutant: the child is appended without the membership test
register_list_always_appends(l, ch) == Append(l, ch)

\* register_child_for_cleanup: `if child not in _children_objects: append`
register_list(l, ch) == IF ch \in Elems(l) THEN l ELSE Append(l, ch)

\* unregister_child_for_cleanup: `if child in _children_objects: remove`
unregister_list(l, ch) == IF ch \in Elems(l) THEN list_remove(l, ch) ELSE l

\* mutant: the oldest child is popped (pop(0))
list_pop_first(l) == [child |-> l[1], rest |-> SubSeq(l, 2, Len(l))]

\* _cleanup_children: `child = _children_objects.pop()`
list_pop(l) == [child |-> l[Len(l)], rest |-> SubSeq(l, 1, Len(l) - 1)]

\* _cleanup_child: the method called on a child of kind k
cleanup_child_call(k) ==
    IF k = "process" THEN "terminate"
    ELSE IF k = "pool" THEN "shutdown" ELSE "ProcessManagementError"

\* mutant: SIGTERM is bound on Windows as well
register_exit_handlers_all_platforms(is_main_thread, is_main_process, sys, h) ==
    IF ~is_main_thread THEN h
    ELSE [h EXCEPT !["SIGINT"] = IF is_main_process THEN "_default_exit" ELSE "SIG_IGN",
                   !["SIGTERM"] = "_default_exit"]

\* mutant: the thread is not looked at
register_exit_handlers_any_thread(is_main_thread, is_main_process, sys, h) ==
    [h EXCEPT !["SIGINT"] = IF is_main_process THEN "_default_exit" ELSE "SIG_IGN",
              !["SIGTERM"] = IF sys # "Windows" THEN "_default_exit" ELSE @]

\* register_exit: the handlers afterwards; `if not is_main_thread: return`,
\* SIGINT by the role, SIGTERM `if _sys_name != "Windows"`
register_exit_handlers(is_main_thread, is_main_process, sys, h) ==
    IF ~is_main_thread THEN h
    ELSE [h EXCEPT !["SIGINT"] = IF is_main_process THEN "_default_exit" ELSE "SIG_IGN",
                   !["SIGTERM"] = IF sys # "Windows" THEN "_default_exit" ELSE @]

\* str(n) of a process id: its decimal digits
str(n) ==
    LET f[k \in 0..n] == IF k < 10 THEN <<k>> ELSE f[k \div 10] \o <<k % 10>>
    IN f[n]

\* mutant: only the last digit is read
int_last_digit(t) == t[Len(t)]

\* int(t) of a decimal text
int(t) ==
    LET f[k \in 0..Len(t)] == IF k = 0 THEN 0 ELSE 10 * f[k - 1] + t[k]
    IN f[Len(t)]

\* PIDManager.register: `open(path, "w")`, `f.write(str(os.getpid()))`
write_file(pid) == [exists |-> TRUE, text |-> str(pid)]

\* PIDManager.get: `open(path)` (FileNotFoundError if there is no file),
\* `int(f.read())`
read_file(f) ==
    IF f.exists THEN [error |-> "none", val |-> int(f.text)]
    ELSE [error |-> "FileNotFoundError", val |-> 0]

\* mutant: os.remove is called without the existence test
remove_file_unguarded(f) ==
    [file |-> Absent, removed |-> TRUE,
     error |-> IF f.exists THEN "none" ELSE "FileNotFoundError"]

\* PIDManager.remove: `if os.path.exists(path): os.remove(path)`
remove_file(f) ==
    [file |-> IF f.exists THEN Absent ELSE f, removed |-> f.exists,
     error |-> "none"]

\* mutant: the stale file is left where it is
resolve_keeps_file(p, f, al) ==
    IF p.kind # "None"
    THEN [process_ |-> p, file |-> f, error |-> "none", warned |-> "none"]
    ELSE LET g == read_file(f) IN
         IF g.error # "none"
         THEN [process_ |-> p, file |-> f, error |-> g.error, warned |-> "none"]
         ELSE IF g.val \in al
         THEN [process_ |-> [kind |-> "Process", pid |-> g.val], file |-> f,
               error |-> "none", warned |-> "none"]
         ELSE [process_ |-> ProcessFalse, file |-> f,
               error |-> "none", warned |-> "none"]

\* mutant: the handle is resolved from the file at every use
resolve_every_time(p, f, al) ==
    LET g == read_file(f) IN
    IF g.error # "none"
    THEN [process_ |-> p, file |-> f, error |-> g.error, warned |-> "none"]
    ELSE IF g.val \in al
    THEN [process_ |-> [kind |-> "Process", pid |-> g.val], file |-> f,
          error |-> "none", warned |-> "none"]
    ELSE [process_ |-> ProcessFalse, file |-> remove_file(f).file,
          error |-> "none",
          warned |-> IF f.exists THEN "stale_file_removed" ELSE "none"]

\* PIDManager._process: the cached handle, else psutil.Process(self.get());
\* on NoSuchProcess the file, if it exists, is removed with a warning and the
\* handle is False; an error of get() leaves the property
resolve(p, f, al) ==
    IF p.kind # "None"
    THEN [process_ |-> p, file |-> f, error |-> "none", warned |-> "none"]
    ELSE LET g == read_file(f) IN
         IF g.error # "none"
         THEN [process_ |-> p, file |-> f, error |-> g.error, warned |-> "none"]
         ELSE IF g.val \in al
         THEN [process_ |-> [kind |-> "Process", pid |-> g.val], file |-> f,
               error |-> "none", warned |-> "none"]
         ELSE [process_ |-> ProcessFalse, file |-> remove_file(f).file,
               error |-> "none",
               warned |-> IF f.exists THEN "stale_file_removed" ELSE "none"]

\* _run_wrapper: `if stop_event.is_set(): break`
beat_stop(is_set) == IF is_set THEN "cleanup" ELSE "check_alive"

\* mutant: the worker thread is not looked at
beat_alive_ignored(is_alive) == "sleep"

\* _run_wrapper: `if not t.is_alive(): break`, else the next beat
beat_alive(is_alive) == IF ~is_alive THEN "cleanup" ELSE "sleep"

\* no asyncio.wait of _shut_down has returned in the step
NoWait == [done |-> {}, pending |-> {}]

\* Event.set(): every coroutine suspended in _shut_down_event.wait() resumes
wake_waiters(p, is_set) ==
    [c \in Starts |-> IF is_set /\ p[c] = "wait" THEN "woken" ELSE p[c]]

\* task t is suspended in one of the waiters
Suspended(t) ==
    \E w \in Waiters : waiter[w].owner = t /\ waiter[w].st \in {"suspended", "woken"}

\* Event.is_set() of the event of state e
EventIsSet(e) ==
    IF e = ON THEN is_on_event
    ELSE IF e = SHUTTING_DOWN THEN shut_down_event ELSE is_off_event

\* the main thread is inside `with _cleanup_lock` of _cleanup_children
LockHeld == \E i \in DOMAIN stack : stack[i].pc \in {"loop", "stop"}

\* _cleanup_lock (an RLock) can be taken by thread th: it is free, or th is
\* the thread that holds it
lock_available(th) == th = "main" \/ ~LockHeld

\* thread th is free to make a call on the registry: the main thread is not
\* inside _cleanup_children
CanCall(th) == th = "main" => stack = <<>>

\* the call of _cleanup_children that the main thread is running
Top == stack[Len(stack)]

\* the stack with its running call replaced by f
SetTop(f) == [stack EXCEPT ![Len(stack)] = f]

\* the terminate() / shutdown() calls that a drain of list l makes
ExpectedStops(l) ==
    [i \in 1..Len(l) |->
        [child |-> l[Len(l) + 1 - i],
         call |-> cleanup_child_call(ChildKind(l[Len(l) + 1 - i])),
         raised |-> FALSE]]

----------------------------------------------------------------------------
Init ==
    /\ state = OFF
    /\ is_on_event = FALSE
    /\ shut_down_event = FALSE
    /\ is_off_event = TRUE
    /\ asc = {}
    /\ shut_down_args = EmptyArgs
    /\ pc = [c \in Starts |-> "idle"]
    /\ drain_fs = [c \in Starts |-> {}]
    /\ wait_result = NoWait
    /\ task = [t \in Tasks |-> "none"]
    /\ store_pc = [t \in Tasks |-> "none"]
    /\ logged = {}
    /\ events = [c \in Starts |-> <<>>]
    /\ hook_args = [async_cleanup |-> "uncalled", sync_cleanup |-> "uncalled"]
    /\ calls = [setup |-> 0, async_cleanup |-> 0, sync_cleanup |-> 0]
    /\ passed_args = "none"
    /\ error = "none"
    /\ waiter = [w \in Waiters |-> [ev |-> "none", st |-> "idle", owner |-> 0]]
    /\ runner = [pc |-> "idle", f_calls |-> 0, signal_handlers |-> FALSE,
                 accepted |-> [a \in ShutDownArgs |-> 0],
                 interrupted_on |-> FALSE]
    /\ registry = [children_objects |-> <<>>, stack |-> <<>>, stop_log |-> <<>>,
                   drain_snapshot |-> <<>>, api_error |-> "none",
                   exited |-> FALSE, signals |-> 0, reg_order |-> <<>>,
                   sys_name |-> "unset",
                   handlers |-> [sg \in Signals |-> "default"],
                   exit_call |-> [th |-> "none", is_main_process |-> FALSE],
                   last_signal |-> "none", killed |-> FALSE,
                   wrapper |-> [pc |-> "unstarted", stop_event |-> FALSE,
                                worker_alive |-> FALSE],
                   pidm |-> [file |-> Absent, process_ |-> ProcessNone,
                             alive |-> Pids, written |-> 0,
                             last |-> [op |-> "none", ret |-> "None", val |-> 0,
                                       warned |-> "none", removed |-> FALSE,
                                       sent |-> 0],
                             poll |-> [op |-> "none", pc |-> "idle"],
                             guard |-> [p \in Pids |-> "idle"]],
                   pools |-> [thread_pool |-> NoPool, process_pool |-> NoPool,
                              made |-> [thread |-> 0, process |-> 0],
                              n_calls |-> 0,
                              returned |-> [get_thread_pool |-> {},
                                            get_process_pool |-> {}],
                              call |-> [th \in Threads |-> IdleCall]],
                   confsys |-> [
                       fs |-> [dirs |-> {BasePath("tmp1")}, conf_files |-> {},
                               info_files |-> {}],
                       cfg |-> [m \in Confs |-> to_conf(m)],
                       component |-> [made |-> FALSE, confs |-> {}],
                       hist |-> [m \in Confs |->
                                    [phase |-> "fresh", base |-> "none",
                                     before |-> to_dict(to_conf(m)),
                                     built |-> to_dict(to_conf(m))]],
                       last |-> [op |-> "none", base |-> "none", ret |-> <<>>,
                                 error |-> "none"],
                       n_ops |-> 0]]

----------------------------------------------------------------------------
\* start(): from the call to the suspension in `await self._setup(...)`
start(c, r) ==
    /\ pc[c] = "idle"
    /\ \A d \in Starts : d < c => pc[d] # "idle"
    /\ logged' = IF ~is_off_event THEN {WarnStart} ELSE {}
    /\ calls' = [calls EXCEPT !.setup = @ + 1]
    /\ pc' = [pc EXCEPT ![c] = IF r = "TypeError" THEN "raised" ELSE "setup"]
    /\ error' = IF r = "ok" THEN "none" ELSE start_error(r)
    /\ UNCHANGED <<state, flags, asc, shut_down_args, drain_fs, task,
                   store_pc, events, hook_args, passed_args, waiter>>
    /\ wait_result' = NoWait
    /\ UNCHANGED <<run_vars, registry_vars>>

\* start(): _setup ends; set state on, suspend in _shut_down_event.wait()
start_set_on(c, r) ==
    /\ pc[c] = "setup"
    /\ IF r = "ok"
       THEN LET s == set_state(ON) IN
            /\ state' = s.state
            /\ is_on_event' = s.on
            /\ shut_down_event' = s.shutting_down
            /\ is_off_event' = s.off
            /\ pc' = [pc EXCEPT ![c] = IF s.shutting_down THEN "woken" ELSE "wait"]
            /\ waiter' = event_set(waiter, ON)
            /\ error' = "none"
       ELSE /\ pc' = [pc EXCEPT ![c] = "raised"]
            /\ error' = "none"
            /\ UNCHANGED <<state, flags, waiter>>
    /\ logged' = {}
    /\ UNCHANGED <<asc, shut_down_args, drain_fs, task, store_pc, events,
                   hook_args, calls, passed_args>>
    /\ wait_result' = NoWait
    /\ UNCHANGED <<run_vars, registry_vars>>

\* shut_down(*args, **kwargs), what it does to the OnOffSystem; a call that
\* is refused does not read its arguments: it is drawn with the empty ones
\* only
shut_down_call(a) ==
    IF shut_down_refused(is_on_event)
    THEN /\ a = EmptyArgs
         /\ logged' = {WarnShutDown}
         /\ UNCHANGED <<state, flags, asc, shut_down_args, pc, drain_fs,
                        task, store_pc, events, hook_args, calls,
                        passed_args, waiter>>
         /\ wait_result' = NoWait
         /\ error' = "none"
    ELSE LET s == set_state(SHUTTING_DOWN) IN
         /\ shut_down_args' = a
         /\ passed_args' = a
         /\ state' = s.state
         /\ is_on_event' = s.on
         /\ shut_down_event' = s.shutting_down
         /\ is_off_event' = s.off
         /\ pc' = wake_waiters(pc, s.shutting_down)
         /\ logged' = {}
         /\ waiter' = event_set(waiter, SHUTTING_DOWN)
         /\ UNCHANGED <<asc, drain_fs, task, store_pc, events, hook_args,
                        calls>>
         /\ wait_result' = NoWait
         /\ error' = "none"

\* shut_down(*args, **kwargs)
shut_down(a) ==
    /\ shut_down_call(a)
    /\ UNCHANGED <<run_vars, registry_vars>>

\* shut_down(*args, **kwargs), the calls that made the transition from on to
\* shutting_down being counted per value of the arguments
shut_down_counted(a) ==
    /\ shut_down_call(a)
    /\ runner' = [runner EXCEPT !.accepted[a] =
                      IF shut_down_refused(is_on_event) THEN @ ELSE @ + 1]
    /\ UNCHANGED registry_vars

\* the part of _shut_down from the call of _sync_cleanup to its end,
\* run by start() coroutine c whose shutdown steps so far are ev
ShutDownTail(c, r, ev) ==
    LET res == shut_down_tail(r, shut_down_args)
        s == set_state(OFF)
    IN /\ calls' = [calls EXCEPT !.sync_cleanup = @ + 1]
       /\ hook_args' = [hook_args EXCEPT !.sync_cleanup = res.given]
       /\ events' = [events EXCEPT ![c] = ev \o res.log]
       /\ shut_down_args' = res.args
       /\ pc' = [pc EXCEPT ![c] = IF r = "ok" THEN "done" ELSE "raised"]
       /\ error' = "none"
       /\ IF res.off
          THEN /\ state' = s.state
               /\ is_on_event' = s.on
               /\ shut_down_event' = s.shutting_down
               /\ is_off_event' = s.off
               /\ waiter' = event_set(waiter, OFF)
          ELSE UNCHANGED <<state, flags, waiter>>

\* start() resumes from the wait and enters _shut_down, up to the suspension
\* in `await self._async_cleanup(...)`
shut_down_enter(c, r) ==
    /\ pc[c] = "woken"
    /\ calls' = [calls EXCEPT !.async_cleanup = @ + 1]
    /\ hook_args' = [hook_args EXCEPT !.async_cleanup = shut_down_args]
    /\ events' = [events EXCEPT ![c] = <<"async_cleanup_begin">>]
    /\ pc' = [pc EXCEPT ![c] = IF r = "TypeError" THEN "raised" ELSE "async_cleanup"]
    /\ error' = "none"
    /\ logged' = {}
    /\ UNCHANGED <<state, flags, asc, shut_down_args, drain_fs, task,
                   store_pc, passed_args, waiter>>
    /\ wait_result' = NoWait
    /\ UNCHANGED <<run_vars, registry_vars>>

\* _shut_down: _async_cleanup ends (outcome r); wait for the tasks if there
\* are any, else go on to _sync_cleanup (outcome r_sc, drawn as "ok" when
\* _sync_cleanup is not called in this step)
shut_down_wait_tasks(c, r, r_sc) ==
    /\ pc[c] = "async_cleanup"
    /\ (r # "ok" \/ Cardinality(asc) > 0) => r_sc = "ok"
    /\ IF r # "ok"
       THEN /\ pc' = [pc EXCEPT ![c] = "raised"]
            /\ error' = "none"
            /\ UNCHANGED <<state, flags, shut_down_args, drain_fs, events,
                           hook_args, calls, waiter>>
       ELSE IF Cardinality(asc) > 0
       THEN /\ pc' = [pc EXCEPT ![c] = "drain"]
            /\ drain_fs' = [drain_fs EXCEPT ![c] = asc]
            /\ events' = [events EXCEPT ![c] = @ \o <<"async_cleanup_end", "wait_begin">>]
            /\ UNCHANGED <<state, flags, shut_down_args, hook_args, calls, waiter>>
            /\ error' = "none"
       ELSE /\ ShutDownTail(c, r_sc, events[c] \o <<"async_cleanup_end">>)
            /\ UNCHANGED drain_fs
    /\ logged' = {}
    /\ UNCHANGED <<asc, task, store_pc, passed_args>>
    /\ wait_result' = NoWait
    /\ UNCHANGED <<run_vars, registry_vars>>

\* _shut_down: asyncio.wait returns (all done, or timeout); warn about the
\* pending tasks, then _sync_cleanup (outcome r_sc)
shut_down_after_wait(c, r_sc) ==
    /\ pc[c] = "drain"
    /\ LET pend == wait_pending(drain_fs[c], task) IN
       /\ wait_returns(pend)
       /\ task' = wait_effect(task, pend)
       /\ wait_result' = [done |-> drain_fs[c] \ pend, pending |-> pend]
       /\ logged' = IF Cardinality(pend) > 0 THEN {WarnPending} ELSE {}
    /\ ShutDownTail(c, r_sc, events[c] \o <<"wait_end">>)
    /\ drain_fs' = [drain_fs EXCEPT ![c] = {}]
    /\ UNCHANGED <<asc, store_pc, passed_args>>
    /\ UNCHANGED <<run_vars, registry_vars>>

\* _ensure_future / _call_and_ensure_future: the task and its
\* _store_and_clear_task coroutine are created
ensure_future(t) ==
    /\ task[t] = "none"
    /\ \A u \in Tasks : u < t => task[u] # "none"
    /\ task' = [task EXCEPT ![t] = "running"]
    /\ store_pc' = [store_pc EXCEPT ![t] = "scheduled"]
    /\ logged' = {}
    /\ UNCHANGED <<state, flags, asc, shut_down_args, pc, drain_fs, events,
                   hook_args, calls, passed_args, waiter>>
    /\ wait_result' = NoWait
    /\ error' = "none"
    /\ UNCHANGED <<run_vars, registry_vars>>

\* the coroutine of a task ends (with a result or with an exception: which
\* of the two is read by _store_and_clear_task only, and is chosen there)
task_ends(t) ==
    /\ task[t] = "running"
    /\ ~Suspended(t)
    /\ task' = [task EXCEPT ![t] = "done"]
    /\ logged' = {}
    /\ UNCHANGED <<state, flags, asc, shut_down_args, pc, drain_fs, store_pc,
                   events, hook_args, calls, passed_args, waiter>>
    /\ wait_result' = NoWait
    /\ error' = "none"
    /\ UNCHANGED <<run_vars, registry_vars>>

\* _store_and_clear_task: first run, up to `await asyncio.wait({task})`
store_task(t) ==
    /\ store_pc[t] = "scheduled"
    /\ asc' = asc \cup {t}
    /\ store_pc' = [store_pc EXCEPT ![t] = "waiting"]
    /\ logged' = {}
    /\ UNCHANGED <<state, flags, shut_down_args, pc, drain_fs, task, events,
                   hook_args, calls, passed_args, waiter>>
    /\ wait_result' = NoWait
    /\ error' = "none"
    /\ UNCHANGED <<run_vars, registry_vars>>

\* _store_and_clear_task: the task is done; log its exception e, remove it
clear_task(t, e) ==
    /\ store_pc[t] = "waiting"
    /\ task[t] = "done"
    /\ logged' = IF e # "None" THEN {CritTask} ELSE {}
    /\ asc' = asc \ {t}
    /\ store_pc' = [store_pc EXCEPT ![t] = "gone"]
    /\ UNCHANGED <<state, flags, shut_down_args, pc, drain_fs, task, events,
                   hook_args, calls, passed_args, waiter>>
    /\ wait_result' = NoWait
    /\ error' = "none"
    /\ UNCHANGED <<run_vars, registry_vars>>

\* shut_down(*args, **kwargs) called from inside the tracked task t
shut_down_from_task(t, a) ==
    /\ task[t] = "running"
    /\ ~Suspended(t)
    /\ shut_down(a)

\* wait_for_on / wait_for_shutting_down / wait_for_off (the one of state e),
\* awaited by task o or, if o = 0, by a coroutine that is not tracked
wait_for(w, e, o) ==
    /\ waiter[w].st = "idle"
    /\ \A v \in Waiters : v < w => waiter[v].st # "idle"
    /\ o # 0 => task[o] = "running" /\ ~Suspended(o)
    /\ waiter' = [waiter EXCEPT ![w] = [ev |-> e, st |-> event_wait(EventIsSet(e)),
                                        owner |-> o]]
    /\ logged' = {}
    /\ UNCHANGED <<state, flags, asc, shut_down_args, pc, drain_fs, task,
                   store_pc, events, hook_args, calls, passed_args>>
    /\ wait_result' = NoWait
    /\ error' = "none"
    /\ UNCHANGED <<run_vars, registry_vars>>

\* the loop resumes a waiter whose future was resolved by Event.set()
waiter_resumes(w) ==
    /\ waiter[w].st = "woken"
    /\ waiter' = [waiter EXCEPT ![w].st = event_wait_resumed(EventIsSet(waiter[w].ev))]
    /\ logged' = {}
    /\ UNCHANGED <<state, flags, asc, shut_down_args, pc, drain_fs, task,
                   store_pc, events, hook_args, calls, passed_args>>
    /\ wait_result' = NoWait
    /\ error' = "none"
    /\ UNCHANGED <<run_vars, registry_vars>>

\* mutant: only the normal return of start() is followed by f
run_except_reraises(outcome) ==
    [f |-> outcome = "returned", caught |-> FALSE]

\* run: `try: run_until_complete(self.start()) except (KeyboardInterrupt,
\* ProcessExit): ...` then `run_until_complete(f())`; outcome is how
\* run_until_complete(self.start()) ended
run_except(outcome) ==
    [f |-> outcome \in {"returned", "KeyboardInterrupt", "ProcessExit"},
     caught |-> outcome \in {"KeyboardInterrupt", "ProcessExit"}]

\* run(f, handle_signals): install the handlers if hs, make the start()
\* task and enter the loop
run(hs) ==
    /\ run_pc = "idle"
    /\ pc[1] = "idle"
    /\ runner' = [runner EXCEPT !.pc = "start", !.signal_handlers = hs]
    /\ logged' = {}
    /\ UNCHANGED <<state, flags, asc, shut_down_args, pc, drain_fs, task,
                   store_pc, events, hook_args, calls, passed_args, waiter>>
    /\ wait_result' = NoWait
    /\ error' = "none"
    /\ UNCHANGED registry_vars

\* run: the loop runs the start() task up to its first suspension
run_start(r) ==
    /\ run_pc = "start"
    /\ start(1, r)

\* run: run_until_complete(self.start()) ends: start() returned or raised,
\* or a signal interrupted the loop (KeyboardInterrupt of the default SIGINT
\* handler, ProcessExit of raise_exit); then f is called
run_start_ends(outcome) ==
    /\ run_pc = "start"
    /\ outcome = "returned" => pc[1] = "done"
    /\ outcome = "raised" => pc[1] = "raised"
    /\ outcome = "KeyboardInterrupt" => ~signal_handlers
    /\ outcome = "ProcessExit" => signal_handlers
    /\ LET res == run_except(outcome) IN
       runner' = [pc |-> IF res.f THEN "f" ELSE "raised",
                  f_calls |-> IF res.f THEN f_calls + 1 ELSE f_calls,
                  signal_handlers |-> IF res.caught THEN FALSE ELSE signal_handlers,
                  accepted |-> accepted,
                  interrupted_on |-> res.caught /\ state = ON]
    /\ logged' = {}
    /\ UNCHANGED <<state, flags, asc, shut_down_args, pc, drain_fs, task,
                   store_pc, events, hook_args, calls, passed_args, waiter>>
    /\ wait_result' = NoWait
    /\ error' = "none"
    /\ UNCHANGED registry_vars

\* run: run_until_complete(f()) ends
f_ends ==
    /\ run_pc = "f"
    /\ runner' = [runner EXCEPT !.pc = "done"]
    /\ logged' = {}
    /\ UNCHANGED <<state, flags, asc, shut_down_args, pc, drain_fs, task,
                   store_pc, events, hook_args, calls, passed_args, waiter>>
    /\ wait_result' = NoWait
    /\ error' = "none"
    /\ UNCHANGED registry_vars

----------------------------------------------------------------------------
\* processes.py: the registry of children and the exit handler

\* register_child_for_cleanup(child), called in thread th
register_child_for_cleanup(th, ch) ==
    /\ ~exited
    /\ CanCall(th)
    /\ IF ~is_child_type(ChildKind(ch))
       THEN registry' = [registry EXCEPT !.api_error = "ProcessManagementError"]
       ELSE /\ lock_available(th)
            /\ registry' = [registry EXCEPT
                   !.children_objects = register_list(children_objects, ch),
                   !.reg_order = IF ch \in Elems(reg_order) THEN reg_order
                                 ELSE Append(reg_order, ch),
                   !.api_error = "none"]
    /\ UNCHANGED <<system_vars, run_vars>>

\* unregister_child_for_cleanup(child), called in thread th
unregister_child_for_cleanup(th, ch) ==
    /\ ~exited
    /\ CanCall(th)
    /\ lock_available(th)
    /\ registry' = [registry EXCEPT
           !.children_objects = unregister_list(children_objects, ch),
           !.reg_order = SelectSeq(reg_order, LAMBDA x : x # ch),
           !.api_error = "none"]
    /\ UNCHANGED <<system_vars, run_vars>>

\* _cleanup_children(), called by the main thread: the lock is taken
cleanup_children ==
    /\ ~exited
    /\ stack = <<>>
    /\ registry' = [registry EXCEPT
           !.stack = <<[op |-> "cleanup", pc |-> "loop", child |-> NoChild]>>,
           !.drain_snapshot = children_objects,
           !.stop_log = <<>>,
           !.api_error = "none"]
    /\ UNCHANGED <<system_vars, run_vars>>

\* _cleanup_children: `while len(_children_objects) > 0: child = pop()`;
\* when the list is empty the lock is released and the call returns (to
\* its caller, or to _default_exit which goes on to sys.exit)
cleanup_pop ==
    /\ ~exited
    /\ stack # <<>>
    /\ Top.pc = "loop"
    /\ IF Len(children_objects) > 0
       THEN LET p == list_pop(children_objects) IN
            registry' = [registry EXCEPT
                !.children_objects = p.rest,
                !.reg_order = SelectSeq(reg_order, LAMBDA x : x # p.child),
                !.stack = SetTop([Top EXCEPT !.pc = "stop", !.child = p.child]),
                !.api_error = "none"]
       ELSE registry' = [registry EXCEPT
                !.stack = IF Top.op = "exit"
                          THEN SetTop([Top EXCEPT !.pc = "exit"])
                          ELSE SubSeq(stack, 1, Len(stack) - 1),
                !.api_error = "none"]
    /\ UNCHANGED <<system_vars, run_vars>>

\* _cleanup_child(child): terminate() or shutdown() is called (outcome r);
\* an exception leaves _cleanup_children and every call under it
cleanup_child(r) ==
    /\ ~exited
    /\ stack # <<>>
    /\ Top.pc = "stop"
    /\ LET call == cleanup_child_call(ChildKind(Top.child))
           fails == r = "raises" \/ call = "ProcessManagementError"
       IN registry' = [registry EXCEPT
              !.stop_log = Append(stop_log, [child |-> Top.child, call |-> call,
                                             raised |-> fails]),
              !.stack = IF fails THEN <<>>
                        ELSE SetTop([Top EXCEPT !.pc = "loop", !.child = NoChild]),
              !.api_error = IF ~fails THEN "none"
                            ELSE IF call = "ProcessManagementError" THEN call
                            ELSE "StopError"]
    /\ UNCHANGED <<system_vars, run_vars>>

\* SIGINT or SIGTERM is delivered: the main thread, whatever it is doing,
\* calls _default_exit, which calls _cleanup_children (the lock is taken,
\* again if the thread has it already)
signal_delivered ==
    /\ ~exited
    /\ signals < MaxSignals
    /\ registry' = [registry EXCEPT
           !.signals = signals + 1,
           !.stack = Append(stack, [op |-> "exit", pc |-> "loop", child |-> NoChild]),
           !.drain_snapshot = IF stack = <<>> THEN children_objects ELSE drain_snapshot,
           !.stop_log = IF stack = <<>> THEN <<>> ELSE stop_log,
           !.api_error = "none"]
    /\ UNCHANGED <<system_vars, run_vars>>

\* _default_exit: sys.exit(0); SystemExit leaves every call of the thread
sys_exit ==
    /\ ~exited
    /\ stack # <<>>
    /\ Top.pc = "exit"
    /\ registry' = [registry EXCEPT !.exited = TRUE, !.api_error = "none"]
    /\ UNCHANGED <<system_vars, run_vars>>

\* the module is imported: `_sys_name = platform.system()`
platform_system(s) ==
    /\ sys_name = "unset"
    /\ registry' = [registry EXCEPT !.sys_name = s]
    /\ UNCHANGED <<system_vars, run_vars>>

\* the process runs: the module is imported, sys.exit was not called and no
\* signal killed the process
Running == sys_name # "unset" /\ ~exited /\ ~killed

\* register_exit(is_main_process), called in thread th
register_exit(th, is_main_process) ==
    /\ Running
    /\ CanCall(th)
    /\ registry' = [registry EXCEPT
           !.handlers = register_exit_handlers(th = "main", is_main_process,
                                               sys_name, handlers),
           !.exit_call = [th |-> th, is_main_process |-> is_main_process],
           !.api_error = "none"]
    /\ UNCHANGED <<system_vars, run_vars>>

\* signal sg is delivered to the process: its handler runs in the main
\* thread, whatever the thread is doing. _default_exit calls
\* _cleanup_children; SIG_IGN does nothing; by default SIGINT raises
\* KeyboardInterrupt in the main thread and SIGTERM ends the process
signal_received(sg) ==
    /\ Running
    /\ signals < MaxSignalsManyRoles
    /\ IF handlers[sg] = "_default_exit"
       THEN registry' = [registry EXCEPT
                !.signals = signals + 1,
                !.last_signal = sg,
                !.stack = Append(stack, [op |-> "exit", pc |-> "loop", child |-> NoChild]),
                !.drain_snapshot = IF stack = <<>> THEN children_objects ELSE drain_snapshot,
                !.stop_log = IF stack = <<>> THEN <<>> ELSE stop_log,
                !.api_error = "none"]
       ELSE IF handlers[sg] = "SIG_IGN"
       THEN registry' = [registry EXCEPT
                !.signals = signals + 1,
                !.last_signal = sg,
                !.api_error = "none"]
       ELSE IF sg = "SIGINT"
       THEN registry' = [registry EXCEPT
                !.signals = signals + 1,
                !.last_signal = sg,
                !.stack = <<>>,
                !.api_error = "KeyboardInterrupt"]
       ELSE registry' = [registry EXCEPT
                !.signals = signals + 1,
                !.last_signal = sg,
                !.killed = TRUE,
                !.api_error = "none"]
    /\ UNCHANGED <<system_vars, run_vars>>

----------------------------------------------------------------------------
\* GracefulProcess on Windows: the parent and the main thread of the child

\* the positions of the polling loop of _run_wrapper
LoopPcs == {"sleep", "check_event", "check_alive"}

\* GracefulProcess.start(): clear the stop event, spawn the child
graceful_start ==
    /\ sys_name = "Windows"
    /\ wrapper_pc = "unstarted"
    /\ registry' = [registry EXCEPT !.wrapper.stop_event = FALSE,
                                    !.wrapper.pc = "boot"]
    /\ UNCHANGED <<system_vars, run_vars>>

\* GracefulProcess.terminate(), called by the parent: set the stop event
graceful_terminate ==
    /\ sys_name = "Windows"
    /\ registry' = [registry EXCEPT !.wrapper.stop_event = TRUE]
    /\ UNCHANGED <<system_vars, run_vars>>

\* _run_wrapper in the child: register_exit(is_main_process=False), start
\* the worker thread
run_wrapper_boot ==
    /\ wrapper_pc = "boot"
    /\ registry' = [registry EXCEPT
           !.handlers = register_exit_handlers(TRUE, FALSE, sys_name, handlers),
           !.exit_call = [th |-> "main", is_main_process |-> FALSE],
           !.wrapper.worker_alive = TRUE,
           !.wrapper.pc = "sleep"]
    /\ UNCHANGED <<system_vars, run_vars>>

\* _run_wrapper: time.sleep(_MAIN_THREAD_BEAT) returns
beat_sleep ==
    /\ wrapper_pc = "sleep"
    /\ registry' = [registry EXCEPT !.wrapper.pc = "check_event"]
    /\ UNCHANGED <<system_vars, run_vars>>

\* _run_wrapper: the stop event is read
beat_check_event ==
    /\ wrapper_pc = "check_event"
    /\ registry' = [registry EXCEPT !.wrapper.pc = beat_stop(stop_event)]
    /\ UNCHANGED <<system_vars, run_vars>>

\* _run_wrapper: the liveness of the worker thread is read
beat_check_alive ==
    /\ wrapper_pc = "check_alive"
    /\ registry' = [registry EXCEPT !.wrapper.pc = beat_alive(worker_alive)]
    /\ UNCHANGED <<system_vars, run_vars>>

\* the target of the worker thread returns or raises
worker_ends ==
    /\ worker_alive
    /\ wrapper_pc # "exited"
    /\ registry' = [registry EXCEPT !.wrapper.worker_alive = FALSE]
    /\ UNCHANGED <<system_vars, run_vars>>

\* the worker thread registers a child of its own
worker_registers(ch) ==
    /\ worker_alive
    /\ wrapper_pc # "exited"
    /\ register_child_for_cleanup("aux", ch)

\* _run_wrapper: the loop was left, _cleanup_children() is called
run_wrapper_cleanup ==
    /\ wrapper_pc = "cleanup"
    /\ registry' = [registry EXCEPT
           !.stack = <<[op |-> "cleanup", pc |-> "loop", child |-> NoChild]>>,
           !.drain_snapshot = children_objects,
           !.stop_log = <<>>,
           !.api_error = "none",
           !.wrapper.pc = "draining"]
    /\ UNCHANGED <<system_vars, run_vars>>

\* _run_wrapper ends, _cleanup_children having returned or raised: the main
\* thread of the child exits
run_wrapper_returns ==
    /\ wrapper_pc = "draining"
    /\ stack = <<>>
    /\ registry' = [registry EXCEPT !.wrapper.pc = "exited"]
    /\ UNCHANGED <<system_vars, run_vars>>

----------------------------------------------------------------------------
\* PIDManager: one manager in the process OwnPid, the PID file, the other
\* processes of the system

\* os.path.exists
path_exists(fs, p) ==
    \/ p = <<>>
    \/ p \in fs.dirs
    \/ \E f \in fs.conf_files \cup fs.info_files : f.path = p

\* snippets mkdir.mkdir(path): os.mkdir, which needs the parent directory
mkdir(st, p) ==
    IF st.error # "none" THEN st
    ELSE IF ~path_exists(st.fs, Parent(p))
         THEN [st EXCEPT !.error = "FileNotFoundError"]
         ELSE IF path_exists(st.fs, p)
              THEN [st EXCEPT !.error = "FileExistsError"]
              ELSE [st EXCEPT !.fs.dirs = st.fs.dirs \cup {p}]

\* `if not os.path.exists(path): mkdir(path)`, for the paths of a list
RECURSIVE mkdir_missing(_, _)
mkdir_missing(st, paths) ==
    IF paths = <<>> \/ st.error # "none" THEN st
    ELSE mkdir_missing(IF path_exists(st.fs, Head(paths)) THEN st
                       ELSE mkdir(st, Head(paths)), Tail(paths))

\* json: what dump writes for a value, and what load reads back
json_encode(v) ==
    [jt |-> CASE v.t = "int" -> "number" [] v.t = "str" -> "string"
              [] v.t = "None" -> "null" [] OTHER -> "object",
     n |-> v.n, s |-> v.s,
     inner |-> [jt |-> CASE v.inner.t = "str" -> "string"
                         [] v.inner.t = "None" -> "null" [] OTHER -> "absent",
                s |-> v.inner.s]]
json_decode(j) ==
    [t |-> CASE j.jt = "number" -> "int" [] j.jt = "string" -> "str"
             [] j.jt = "null" -> "None" [] OTHER -> "dict",
     n |-> j.n, s |-> j.s,
     inner |-> [t |-> CASE j.inner.jt = "string" -> "str"
                        [] j.inner.jt = "null" -> "None" [] OTHER -> "absent",
                s |-> j.inner.s]]

\* ConfigurationManager.standard_configure: `base_name_l`
base_name_l(type, service_name, component_name) ==
    CASE type = "package" -> <<>>
      [] type = "service" -> <<service_name>>
      [] OTHER -> <<service_name, component_name>>

\* ConfigurationManager.standard_configure: the path given to a file or
\* directory field
field_path(m, k, b, service_name, component_name) ==
    Join(Join(BasePath(b), <<Fields(m)[k].category>>),
         base_name_l(conf_type(m), service_name, component_name)
             \o <<Fields(m)[k].suffix>>)

\* what setattr_fct(conf, key, path) leaves in the field: setattr sets the
\* path, the setter of sqlite_db sets the item NAME of the dict
field_set(setter, old, path) ==
    IF setter = "setitem_NAME" THEN DictVal(StrVal(path)) ELSE StrVal(path)

\* ConfigurationManager.standard_configure on the Configuration conf of
\* manager m: the file and directory fields not set by the user get their
\* standard path; Configuration.__setattr__ records each key it sets
standard_configure(conf, m, b, service_name, component_name) ==
    LET todo == {k \in conf_keys(m) : /\ k \notin conf.was_set_by_user
                                      /\ Fields(m)[k].kind \in {"file", "dir"}}
    IN [conf EXCEPT
           !.values = [k \in conf_keys(m) |->
               IF k \in todo
               THEN field_set(Fields(m)[k].setter, conf.values[k],
                              field_path(m, k, b, service_name, component_name))
               ELSE conf.values[k]],
           !.was_set_by_user = conf.was_set_by_user \cup
               {k \in todo : Fields(m)[k].setter = "setattr"}]

\* ConfigurationManager.get_conf_path / the conf_dir_path of build
conf_dir_path(b, service_name, component_name) ==
    Join(Join(BasePath(b), <<"conf">>), <<service_name, component_name>>)
get_conf_path(m, b, service_name, component_name) ==
    Join(conf_dir_path(b, service_name, component_name), <<m>>)

\* ConfigurationManager.to_file(conf_path): dump(self.to_dict(), conf_path)
to_file(st, conf, m, p) ==
    IF st.error # "none" THEN st
    ELSE IF ~path_exists(st.fs, Parent(p))
         THEN [st EXCEPT !.error = "FileNotFoundError"]
         ELSE [st EXCEPT !.fs.conf_files =
                  {f \in st.fs.conf_files : f.path # p} \cup
                  {[path |-> p, fullname |-> m,
                    conf |-> [k \in conf_keys(m) |-> json_encode(to_dict(conf)[k])]]}]

\* ConfigurationManager.build: the directories of the base, of the
\* categories and of the component, the directories of the DirConfField
\* fields (os.path.exists(None) raises TypeError), then the conf file
build(st, conf, m, b, service_name, component_name) ==
    LET tree == <<BasePath(b)>> \o
                [i \in DOMAIN Categories |-> Join(BasePath(b), <<Categories[i]>>)] \o
                <<conf_dir_path(b, service_name, component_name)>>
        st1 == mkdir_missing(st, tree)
        dks == {k \in conf_keys(m) : Fields(m)[k].kind = "dir"}
        st2 == IF st1.error # "none" THEN st1
               ELSE IF \E k \in dks : conf.values[k].t # "str"
                    THEN [st1 EXCEPT !.error = "TypeError"]
                    ELSE IF dks = {} THEN st1
                         ELSE mkdir_missing(st1, <<conf.values[CHOOSE k \in dks : TRUE].s>>)
    IN to_file(st2, conf, m, get_conf_path(m, b, service_name, component_name))

\* Configuration.from_dict(d) of set_conf_from_dict: setattr of every item
from_dict(conf, m, d) ==
    [conf EXCEPT !.values = [k \in conf_keys(m) |-> json_decode(d[k])],
                 !.was_set_by_user = conf.was_set_by_user \cup conf_keys(m)]

\* Component.build, after the configurations were built: the info file
write_info(st, b, service_name, component_name) ==
    LET p == Join(conf_dir_path(b, service_name, component_name), INFO) IN
    IF st.error # "none" THEN st
    ELSE IF ~path_exists(st.fs, Parent(p))
         THEN [st EXCEPT !.error = "FileNotFoundError"]
         ELSE [st EXCEPT !.fs.info_files =
                  {f \in st.fs.info_files : f.path # p} \cup
                  {[path |-> p, load_fullname |-> "COMPONENT", name |-> component_name]}]

\* Component.build: `for conf in self._confs: conf.build(...)`, the set
\* being run through in the order ord; an exception ends the loop
RECURSIVE build_all(_, _, _, _, _, _)
build_all(st, cfg, ord, b, service_name, component_name) ==
    IF ord = <<>> \/ st.error # "none" THEN st
    ELSE build_all(build(st, cfg[Head(ord)], Head(ord), b, service_name,
                         component_name),
                   cfg, Tail(ord), b, service_name, component_name)

\* the loop of Component.build reached the conf of m and built it
built_by(st, cfg, ord, b, m) ==
    \E i \in DOMAIN ord :
        /\ ord[i] = m
        /\ build_all(st, cfg, SubSeq(ord, 1, i), b, ServiceName, ComponentName).error
               = "none"

\* `x is None` of a module global that holds a pool
is_none(pool) == pool = NoPool

\* the loops of wait_for_on / wait_for_off end at any file state
poll_done_at_once(op, file_exists) == TRUE

\* `while not self.is_on` / `while self.is_on` is left when is_on has the
\* awaited value
poll_done(op, file_exists) ==
    IF op = "wait_for_on" THEN file_exists ELSE ~file_exists

\* what a call that returns None and logs nothing leaves in pid_last
Returned(op) ==
    [op |-> op, ret |-> "None", val |-> 0, warned |-> "none", removed |-> FALSE,
     sent |-> 0]

\* PIDManager(pid_path): a new manager for the same path
pid_manager_new ==
    /\ process_ # ProcessNone
    /\ registry' = [registry EXCEPT !.pidm.process_ = ProcessNone,
                                    !.pidm.last = Returned("init")]
    /\ UNCHANGED <<system_vars, run_vars>>

\* PIDManager.register()
pid_register ==
    /\ registry' = [registry EXCEPT !.pidm.file = write_file(OwnPid),
                                    !.pidm.written = OwnPid,
                                    !.pidm.last = Returned("register")]
    /\ UNCHANGED <<system_vars, run_vars>>

\* register() of the manager of another process p, on the same path
other_register(p) ==
    /\ p \in alive \ {OwnPid}
    /\ registry' = [registry EXCEPT !.pidm.file = write_file(p),
                                    !.pidm.written = p,
                                    !.pidm.last = Returned("other")]
    /\ UNCHANGED <<system_vars, run_vars>>

\* another process ends without removing anything
process_dies(p) ==
    /\ p \in alive \ {OwnPid}
    /\ registry' = [registry EXCEPT !.pidm.alive = alive \ {p}]
    /\ UNCHANGED <<system_vars, run_vars>>

\* PIDManager.get()
pid_get ==
    /\ LET g == read_file(pid_file) IN
       registry' = [registry EXCEPT !.pidm.last =
           [Returned("get") EXCEPT
               !.ret = IF g.error = "none" THEN "value" ELSE g.error,
               !.val = g.val]]
    /\ UNCHANGED <<system_vars, run_vars>>

\* PIDManager.exists() and PIDManager.is_on (w names the one called):
\* os.path.exists(self._pid_path)
pid_exists(w) ==
    /\ registry' = [registry EXCEPT !.pidm.last =
           [Returned(w) EXCEPT !.ret = IF pid_file.exists THEN "True" ELSE "False"]]
    /\ UNCHANGED <<system_vars, run_vars>>

\* PIDManager.remove()
pid_remove ==
    /\ LET rm == remove_file(pid_file) IN
       registry' = [registry EXCEPT
           !.pidm.file = rm.file,
           !.pidm.last = [Returned("remove") EXCEPT
               !.ret = IF rm.error = "none" THEN "None" ELSE rm.error,
               !.removed = rm.removed]]
    /\ UNCHANGED <<system_vars, run_vars>>

\* PIDManager.terminate_process(): resolve the handle; return if it is
\* False; else terminate(), NoSuchProcess being logged and swallowed
pid_terminate_process ==
    /\ LET rs == resolve(process_, pid_file, alive) IN
       registry' = [registry EXCEPT
           !.pidm.process_ = rs.process_,
           !.pidm.file = rs.file,
           !.pidm.last = [Returned("terminate_process") EXCEPT
               !.ret = IF rs.error = "none" THEN "None" ELSE rs.error,
               !.warned = IF rs.error = "none" /\ rs.process_.kind = "Process"
                             /\ rs.process_.pid \notin alive
                          THEN "already_gone" ELSE rs.warned,
               !.removed = rs.file # pid_file,
               !.sent = IF rs.error = "none" /\ rs.process_.kind = "Process"
                           /\ rs.process_.pid \in alive
                        THEN rs.process_.pid ELSE 0]]
    /\ UNCHANGED <<system_vars, run_vars>>

\* PIDManager.wait_for_process(): resolve the handle; return if it is
\* False; else wait() on it, which returns at once for a process that has
\* ended and else blocks the calling thread (ret "blocked", val the process
\* waited for)
pid_wait_for_process ==
    /\ LET rs == resolve(process_, pid_file, alive) IN
       registry' = [registry EXCEPT
           !.pidm.process_ = rs.process_,
           !.pidm.file = rs.file,
           !.pidm.last = [Returned("wait_for_process") EXCEPT
               !.ret = IF rs.error # "none" THEN rs.error
                       ELSE IF rs.process_.kind = "Process"
                               /\ rs.process_.pid \in alive
                       THEN "blocked" ELSE "None",
               !.val = IF rs.error = "none" THEN rs.process_.pid ELSE 0,
               !.warned = rs.warned,
               !.removed = rs.file # pid_file]]
    /\ UNCHANGED <<system_vars, run_vars>>

\* remove() of the manager of another process, on the same path
other_remove ==
    /\ pid_file.exists
    /\ registry' = [registry EXCEPT !.pidm.file = remove_file(pid_file).file,
                                    !.pidm.last = Returned("other")]
    /\ UNCHANGED <<system_vars, run_vars>>

\* PIDManager.wait_for_on() / wait_for_off() is called (op names the one)
wait_for_call(op) ==
    /\ poll.pc \in {"idle", "returned"}
    /\ registry' = [registry EXCEPT !.pidm.poll = [op |-> op, pc |-> "test"],
                                    !.pidm.last = Returned(op)]
    /\ UNCHANGED <<system_vars, run_vars>>

\* the loop test of wait_for_on / wait_for_off: leave the loop, or sleep
poll_test ==
    /\ poll.pc = "test"
    /\ registry' = [registry EXCEPT !.pidm.poll.pc =
           IF poll_done(poll.op, pid_file.exists) THEN "returned" ELSE "sleep"]
    /\ UNCHANGED <<system_vars, run_vars>>

\* time.sleep(0.1) returns
poll_sleep ==
    /\ poll.pc = "sleep"
    /\ registry' = [registry EXCEPT !.pidm.poll.pc = "test"]
    /\ UNCHANGED <<system_vars, run_vars>>

\* process p calls check_is_off() of its manager of the path: it raises
\* ProcessManagementError when the file exists
guard_check_is_off(p) ==
    /\ p \in alive
    /\ guard[p] \in {"idle", "refused"}
    /\ registry' = [registry EXCEPT !.pidm.guard[p] =
           IF pid_file.exists THEN "refused" ELSE "checked"]
    /\ UNCHANGED <<system_vars, run_vars>>

\* process p, whose check_is_off() returned, calls register()
guard_register(p) ==
    /\ p \in alive
    /\ guard[p] = "checked"
    /\ registry' = [registry EXCEPT !.pidm.file = write_file(p),
                                    !.pidm.written = p,
                                    !.pidm.guard[p] = "registered"]
    /\ UNCHANGED <<system_vars, run_vars>>

\* process p, which registered, stops: remove() of its manager
guard_remove(p) ==
    /\ p \in alive
    /\ guard[p] = "registered"
    /\ registry' = [registry EXCEPT !.pidm.file = remove_file(pid_file).file,
                                    !.pidm.guard[p] = "idle"]
    /\ UNCHANGED <<system_vars, run_vars>>

----------------------------------------------------------------------------
\* oservices.asyncio: get_thread_pool and get_process_pool, called by the
\* threads of one process; a step is what a thread runs between two thread
\* switches

\* thread th calls get_thread_pool() or get_process_pool(register_as_child,
\* max_processes_if_creation); no_process is max_processes_if_creation == 0
pool_call(th, fn, reg, no_process) ==
    /\ sys_name # "unset"
    /\ pool_calls < MaxPoolCalls
    /\ pool_call_of[th].pc = "idle"
    /\ fn = "get_thread_pool" => (~reg /\ ~no_process)
    /\ registry' = [registry EXCEPT
           !.pools.n_calls = pool_calls + 1,
           !.pools.call[th] =
               [fn |-> fn,
                pc |-> IF fn = "get_thread_pool" THEN "tp_test" ELSE "pp_test",
                register_as_child |-> reg, no_process |-> no_process,
                nested |-> FALSE, got |-> NoPool]]
    /\ UNCHANGED <<system_vars, run_vars>>

\* get_thread_pool: `if _thread_pool is None`
tp_test(th) ==
    /\ pool_call_of[th].pc = "tp_test"
    /\ registry' = [registry EXCEPT !.pools.call[th].pc =
           IF is_none(thread_pool) THEN "tp_create" ELSE "tp_return"]
    /\ UNCHANGED <<system_vars, run_vars>>

\* get_thread_pool: `_thread_pool = ThreadPoolExecutor(...)`
tp_create(th) ==
    /\ pool_call_of[th].pc = "tp_create"
    /\ registry' = [registry EXCEPT
           !.pools.thread_pool = ThreadPoolObj(pools_made.thread + 1),
           !.pools.made.thread = pools_made.thread + 1,
           !.pools.call[th].pc = "tp_return"]
    /\ UNCHANGED <<system_vars, run_vars>>

\* get_thread_pool: `return _thread_pool`, to the caller of the thread or
\* to get_process_pool
tp_return(th) ==
    /\ pool_call_of[th].pc = "tp_return"
    /\ IF pool_call_of[th].nested
       THEN registry' = [registry EXCEPT
                !.pools.call[th].got = thread_pool,
                !.pools.call[th].pc = "pp_assign"]
       ELSE registry' = [registry EXCEPT
                !.pools.returned.get_thread_pool =
                    pools_returned.get_thread_pool \cup {thread_pool},
                !.pools.call[th] = IdleCall]
    /\ UNCHANGED <<system_vars, run_vars>>

\* get_process_pool: `if _process_pool is None`, then the choice between
\* the thread pool (no process asked, or Windows) and a new process pool
pp_test(th) ==
    /\ pool_call_of[th].pc = "pp_test"
    /\ registry' = [registry EXCEPT
           !.pools.call[th].pc =
               IF ~is_none(process_pool) THEN "pp_return"
               ELSE IF pool_call_of[th].no_process \/ sys_name = "Windows"
                    THEN "tp_test" ELSE "pp_create",
           !.pools.call[th].nested = is_none(process_pool) /\
               (pool_call_of[th].no_process \/ sys_name = "Windows")]
    /\ UNCHANGED <<system_vars, run_vars>>

\* get_process_pool: `_process_pool = ProcessPoolExecutor(...)`
pp_create(th) ==
    /\ pool_call_of[th].pc = "pp_create"
    /\ registry' = [registry EXCEPT
           !.pools.process_pool = ProcessPoolObj(pools_made.process + 1),
           !.pools.made.process = pools_made.process + 1,
           !.pools.call[th].pc =
               IF pool_call_of[th].register_as_child THEN "pp_register"
               ELSE "pp_return"]
    /\ UNCHANGED <<system_vars, run_vars>>

\* get_process_pool: `register_child_for_cleanup(_process_pool)`
pp_register(th) ==
    /\ pool_call_of[th].pc = "pp_register"
    /\ lock_available(th)
    /\ registry' = [registry EXCEPT
           !.children_objects = register_list(children_objects, process_pool),
           !.pools.call[th].pc = "pp_return"]
    /\ UNCHANGED <<system_vars, run_vars>>

\* get_process_pool: `_process_pool = get_thread_pool()`, the call returned
pp_assign(th) ==
    /\ pool_call_of[th].pc = "pp_assign"
    /\ registry' = [registry EXCEPT
           !.pools.process_pool = pool_call_of[th].got,
           !.pools.call[th].pc = "pp_return"]
    /\ UNCHANGED <<system_vars, run_vars>>

\* get_process_pool: `return _process_pool`
pp_return(th) ==
    /\ pool_call_of[th].pc = "pp_return"
    /\ registry' = [registry EXCEPT
           !.pools.returned.get_process_pool =
               pools_returned.get_process_pool \cup {process_pool},
           !.pools.call[th] = IdleCall]
    /\ UNCHANGED <<system_vars, run_vars>>

----------------------------------------------------------------------------
\* oservices.conf and oservices.component: calls on the configurations of
\* Confs and on a Component of the service ServiceName named ComponentName

\* the file system as a call finds it, no error raised yet
Begin == [fs |-> file_system, error |-> "none"]

\* Configuration.standard_configure(base_dir_path, service_name,
\* component_name) on the configuration of manager m
conf_standard_configure(m, b) ==
    /\ conf_ops < MaxConfOps
    /\ registry' = [registry EXCEPT
           !.confsys.cfg[m] =
               standard_configure(configuration[m], m, b, ServiceName, ComponentName),
           !.confsys.hist[m] = [phase |-> "configured", base |-> b,
                                before |-> to_dict(configuration[m]),
                                built |-> conf_hist[m].built],
           !.confsys.last = [op |-> "standard_configure", base |-> b,
                             ret |-> <<>>, error |-> "none"],
           !.confsys.n_ops = conf_ops + 1]
    /\ UNCHANGED <<system_vars, run_vars>>

\* Configuration.build(base_dir_path, service_name, component_name)
conf_build(m, b) ==
    /\ conf_ops < MaxConfOps
    /\ LET st == build(Begin, configuration[m], m, b, ServiceName, ComponentName) IN
       registry' = [registry EXCEPT
           !.confsys.fs = st.fs,
           !.confsys.hist[m] =
               IF st.error = "none" /\ conf_hist[m].phase = "configured"
                  /\ conf_hist[m].base = b
               THEN [conf_hist[m] EXCEPT !.phase = "built",
                                         !.built = to_dict(configuration[m])]
               ELSE [conf_hist[m] EXCEPT !.phase = "other"],
           !.confsys.last = [op |-> "build", base |-> b,
                             ret |-> IF st.error = "none"
                                     THEN get_conf_path(m, b, ServiceName, ComponentName)
                                     ELSE <<>>,
                             error |-> st.error],
           !.confsys.n_ops = conf_ops + 1]
    /\ UNCHANGED <<system_vars, run_vars>>

\* ConfigurationManager.set_conf_from_file(file_path) on the conf file f
set_conf_from_file(f) ==
    /\ conf_ops < MaxConfOps
    /\ f \in file_system.conf_files
    /\ LET m == f.fullname IN
       registry' = [registry EXCEPT
           !.confsys.cfg[m] = [from_dict(configuration[m], m, f.conf)
                                  EXCEPT !.CONF_PATH = f.path],
           !.confsys.hist[m].phase =
               IF conf_hist[m].phase \in {"built", "loaded"}
                  /\ f.path = get_conf_path(m, conf_hist[m].base, ServiceName,
                                            ComponentName)
               THEN "loaded" ELSE "other",
           !.confsys.last = [op |-> "set_conf_from_file", base |-> "none",
                             ret |-> f.path, error |-> "none"],
           !.confsys.n_ops = conf_ops + 1]
    /\ UNCHANGED <<system_vars, run_vars>>

\* the user sets the field int of a configuration (conf.int = n)
conf_setattr(m, n) ==
    /\ conf_ops < MaxConfOps
    /\ configuration[m].values.int # IntVal(n)
    /\ registry' = [registry EXCEPT
           !.confsys.cfg[m].values.int = IntVal(n),
           !.confsys.cfg[m].was_set_by_user =
               configuration[m].was_set_by_user \cup {"int"},
           !.confsys.hist[m].phase = "other",
           !.confsys.last = [op |-> "setattr", base |-> "none", ret |-> <<>>,
                             error |-> "none"],
           !.confsys.n_ops = conf_ops + 1]
    /\ UNCHANGED <<system_vars, run_vars>>

\* Component(service_name, name, default_confs): cs is set(default_confs),
\* empty for None
component_new(cs) ==
    /\ ~component.made
    /\ registry' = [registry EXCEPT
           !.confsys.component = [made |-> TRUE, confs |-> cs]]
    /\ UNCHANGED <<system_vars, run_vars>>

\* Component.standard_configure(base_dir_path, build): standard_configure
\* of every conf of _confs, then Component.build, which builds every conf
\* (in the order ord of the set), writes the info file and returns the
\* standard conf directory
component_standard_configure(b, with_build, ord) ==
    /\ conf_ops < MaxConfOps
    /\ component.made
    /\ Len(ord) = Cardinality(component.confs)
    /\ {ord[i] : i \in DOMAIN ord} = component.confs
    /\ LET cfg1 == [m \in Confs |->
                       IF m \in component.confs
                       THEN standard_configure(configuration[m], m, b, ServiceName,
                                               ComponentName)
                       ELSE configuration[m]]
           st == IF with_build
                 THEN write_info(build_all(Begin, cfg1, ord, b, ServiceName,
                                           ComponentName),
                                 b, ServiceName, ComponentName)
                 ELSE Begin
       IN registry' = [registry EXCEPT
              !.confsys.cfg = cfg1,
              !.confsys.fs = st.fs,
              !.confsys.hist = [m \in Confs |->
                  IF m \notin component.confs THEN conf_hist[m]
                  ELSE [phase |-> IF with_build /\ built_by(Begin, cfg1, ord, b, m)
                                  THEN "built" ELSE "configured",
                        base |-> b,
                        before |-> to_dict(configuration[m]),
                        built |-> IF with_build /\ built_by(Begin, cfg1, ord, b, m)
                                  THEN to_dict(cfg1[m]) ELSE conf_hist[m].built]],
              !.confsys.last = [op |-> IF with_build THEN "Component.build"
                                       ELSE "Component.standard_configure",
                                base |-> b,
                                ret |-> IF with_build /\ st.error = "none"
                                        THEN conf_dir_path(b, ServiceName, ComponentName)
                                        ELSE <<>>,
                                error |-> st.error],
              !.confsys.n_ops = conf_ops + 1]
    /\ UNCHANGED <<system_vars, run_vars>>

----------------------------------------------------------------------------
\* several start() coroutines, hooks that may raise
Next ==
    \/ \E c \in Starts, r \in CallOutcomes : start(c, r)
    \/ \E c \in Starts, r \in HookOutcomes : start_set_on(c, r)
    \/ \E a \in ShutDownArgs : shut_down(a)
    \/ \E c \in Starts, r \in CallOutcomes : shut_down_enter(c, r)
    \/ \E c \in Starts, r \in HookOutcomes, r_sc \in HookOutcomes : shut_down_wait_tasks(c, r, r_sc)
    \/ \E c \in Starts, r_sc \in HookOutcomes : shut_down_after_wait(c, r_sc)
    \/ \E t \in 1..MaxTasksManyStarts : ensure_future(t)
    \/ \E t \in Tasks : task_ends(t)
    \/ \E t \in Tasks : store_task(t)
    \/ \E t \in Tasks, e \in TaskExceptions : clear_task(t, e)

Spec == Init /\ [][Next]_vars

\* the same, the shut_down calls that made the transition being counted
CountedNext ==
    \/ \E c \in Starts, r \in CallOutcomes : start(c, r)
    \/ \E c \in Starts, r \in HookOutcomes : start_set_on(c, r)
    \/ \E a \in ShutDownArgs : shut_down_counted(a)
    \/ \E c \in Starts, r \in CallOutcomes : shut_down_enter(c, r)
    \/ \E c \in Starts, r \in HookOutcomes, r_sc \in HookOutcomes : shut_down_wait_tasks(c, r, r_sc)
    \/ \E c \in Starts, r_sc \in HookOutcomes : shut_down_after_wait(c, r_sc)
    \/ \E t \in 1..MaxTasksManyStarts : ensure_future(t)
    \/ \E t \in Tasks : task_ends(t)
    \/ \E t \in Tasks : store_task(t)
    \/ \E t \in Tasks, e \in TaskExceptions : clear_task(t, e)

CountedSpec == Init /\ [][CountedNext]_vars

\* the loop runs a coroutine that is ready; hooks end; the timeout of
\* asyncio.wait elapses
ShutDownRuns(c) ==
    \/ \E r \in CallOutcomes : shut_down_enter(c, r)
    \/ \E r \in HookOutcomes, r_sc \in HookOutcomes : shut_down_wait_tasks(c, r, r_sc)
    \/ \E r_sc \in HookOutcomes : shut_down_after_wait(c, r_sc)

\* one start() coroutine, hooks that may raise
LifecycleNext ==
    \/ \E r \in CallOutcomes : start(1, r)
    \/ \E r \in HookOutcomes : start_set_on(1, r)
    \/ \E a \in ShutDownArgs : shut_down(a)
    \/ \E r \in CallOutcomes : shut_down_enter(1, r)
    \/ \E r \in HookOutcomes, r_sc \in HookOutcomes : shut_down_wait_tasks(1, r, r_sc)
    \/ \E r_sc \in HookOutcomes : shut_down_after_wait(1, r_sc)
    \/ \E t \in Tasks : ensure_future(t)
    \/ \E t \in Tasks : task_ends(t)
    \/ \E t \in Tasks : store_task(t)
    \/ \E t \in Tasks, e \in TaskExceptions : clear_task(t, e)

LifecycleSpec == Init /\ [][LifecycleNext]_vars /\ WF_vars(ShutDownRuns(1))

\* one start() coroutine, hooks that accept their arguments and return
NominalRuns ==
    \/ shut_down_enter(1, "ok")
    \/ shut_down_wait_tasks(1, "ok", "ok")
    \/ shut_down_after_wait(1, "ok")

NominalNext ==
    \/ start(1, "ok")
    \/ start_set_on(1, "ok")
    \/ \E a \in ShutDownArgs : shut_down(a)
    \/ shut_down_enter(1, "ok")
    \/ shut_down_wait_tasks(1, "ok", "ok")
    \/ shut_down_after_wait(1, "ok")
    \/ \E t \in Tasks : ensure_future(t)
    \/ \E t \in Tasks : task_ends(t)
    \/ \E t \in Tasks : store_task(t)
    \/ \E t \in Tasks, e \in TaskExceptions : clear_task(t, e)

NominalSpec == Init /\ [][NominalNext]_vars /\ WF_vars(NominalRuns)

\* the start() coroutine made by run, hooks that may raise, signals
RunOutcomes == {"returned", "raised", "KeyboardInterrupt", "ProcessExit"}

RunNext ==
    \/ \E hs \in BOOLEAN : run(hs)
    \/ \E r \in CallOutcomes : run_start(r)
    \/ \E o \in RunOutcomes : run_start_ends(o)
    \/ f_ends
    \/ \E r \in HookOutcomes : start_set_on(1, r)
    \/ \E a \in ShutDownArgs : shut_down(a)
    \/ \E r \in CallOutcomes : shut_down_enter(1, r)
    \/ \E r \in HookOutcomes, r_sc \in HookOutcomes : shut_down_wait_tasks(1, r, r_sc)
    \/ \E r_sc \in HookOutcomes : shut_down_after_wait(1, r_sc)
    \/ \E t \in Tasks : ensure_future(t)
    \/ \E t \in Tasks : task_ends(t)
    \/ \E t \in Tasks : store_task(t)
    \/ \E t \in Tasks, e \in TaskExceptions : clear_task(t, e)

RunSpec == Init /\ [][RunNext]_vars

\* one start() coroutine with hooks that return, tasks that call shut_down
\* and coroutines that wait for a state
WaiterNext ==
    \/ start(1, "ok")
    \/ start_set_on(1, "ok")
    \/ \E t \in Tasks : shut_down_from_task(t, EmptyArgs)
    \/ shut_down_enter(1, "ok")
    \/ shut_down_wait_tasks(1, "ok", "ok")
    \/ shut_down_after_wait(1, "ok")
    \/ \E t \in 1..MaxTasksManyStarts : ensure_future(t)
    \/ \E t \in Tasks : task_ends(t)
    \/ \E t \in Tasks : store_task(t)
    \/ \E t \in Tasks, e \in TaskExceptions : clear_task(t, e)
    \/ \E w \in Waiters, e \in {ON, SHUTTING_DOWN, OFF}, o \in {0} \cup Tasks : wait_for(w, e, o)
    \/ \E w \in Waiters : waiter_resumes(w)

\* the loop runs the coroutines that are ready
WaiterSpec ==
    /\ Init /\ [][WaiterNext]_vars
    /\ WF_vars(NominalRuns)
    /\ \A w \in Waiters : WF_vars(waiter_resumes(w))

\* the registry used by two threads, children whose stop may fail
RegistryNext ==
    \/ \E th \in Threads, ch \in Children \cup {UnknownChild} : register_child_for_cleanup(th, ch)
    \/ \E th \in Threads, ch \in Children : unregister_child_for_cleanup(th, ch)
    \/ cleanup_children
    \/ cleanup_pop
    \/ \E r \in StopOutcomes : cleanup_child(r)

RegistrySpec == Init /\ [][RegistryNext]_vars

\* the registry used by two threads of a process that gets signals,
\* children whose stop succeeds
SignalNext ==
    \/ \E th \in Threads, ch \in Children : register_child_for_cleanup(th, ch)
    \/ \E th \in Threads, ch \in Children : unregister_child_for_cleanup(th, ch)
    \/ signal_delivered
    \/ cleanup_pop
    \/ cleanup_child("ok")
    \/ sys_exit

SignalSpec == Init /\ [][SignalNext]_vars

\* a process on either platform that installs the exit handler in either
\* role, registers children from two threads and gets signals; stops may fail
ExitNext ==
    \/ \E s \in Platforms : platform_system(s)
    \/ \E th \in Threads, imp \in BOOLEAN : register_exit(th, imp)
    \/ \E th \in Threads, ch \in Children : Running /\ register_child_for_cleanup(th, ch)
    \/ \E sg \in Signals : signal_received(sg)
    \/ Running /\ cleanup_pop
    \/ \E r \in StopOutcomes : Running /\ cleanup_child(r)
    \/ Running /\ sys_exit

ExitSpec == Init /\ [][ExitNext]_vars

\* a PIDManager, managers of other processes on the same path, processes
\* that end
PidNext ==
    \/ pid_manager_new
    \/ pid_register
    \/ \E p \in Pids : other_register(p)
    \/ \E p \in Pids : process_dies(p)
    \/ pid_get
    \/ \E w \in {"exists", "is_on"} : pid_exists(w)
    \/ pid_remove
    \/ pid_terminate_process
    \/ pid_wait_for_process

PidSpec == Init /\ [][PidNext]_vars

\* the thread that called wait_for_on / wait_for_off runs
PollRuns == poll_test \/ poll_sleep

\* a PIDManager that waits for the file, managers of other processes that
\* write and remove it, processes that end
PollNext ==
    \/ \E op \in {"wait_for_on", "wait_for_off"} : wait_for_call(op)
    \/ poll_test
    \/ poll_sleep
    \/ \E p \in Pids : other_register(p)
    \/ other_remove
    \/ \E p \in Pids : process_dies(p)

PollSpec == Init /\ [][PollNext]_vars /\ WF_vars(PollRuns)

\* processes that start and stop a component on one PID path, each with
\* `check_is_off(); register()` and later `remove()`
GuardNext ==
    \/ \E p \in Pids : guard_check_is_off(p)
    \/ \E p \in Pids : guard_register(p)
    \/ \E p \in Pids : guard_remove(p)

GuardSpec == Init /\ [][GuardNext]_vars

\* the threads of a process call get_thread_pool and get_process_pool
PoolNext ==
    \/ \E s \in Platforms : platform_system(s)
    \/ \E th \in Threads, fn \in {"get_thread_pool", "get_process_pool"},
          reg \in BOOLEAN, no_process \in BOOLEAN : pool_call(th, fn, reg, no_process)
    \/ \E th \in Threads : tp_test(th)
    \/ \E th \in Threads : tp_create(th)
    \/ \E th \in Threads : tp_return(th)
    \/ \E th \in Threads : pp_test(th)
    \/ \E th \in Threads : pp_create(th)
    \/ \E th \in Threads : pp_register(th)
    \/ \E th \in Threads : pp_assign(th)
    \/ \E th \in Threads : pp_return(th)

PoolSpec == Init /\ [][PoolNext]_vars

\* the orders in which a set of configurations can be run through
ConfOrders == {<<>>} \cup {<<m>> : m \in Confs}
                  \cup {<<m, n>> : m \in Confs, n \in Confs}

\* configurations that are configured, built, loaded and set, and a
\* component that is configured and built
ConfNext ==
    \/ \E m \in Confs, b \in BaseNames : conf_standard_configure(m, b)
    \/ \E m \in Confs, b \in BaseNames : conf_build(m, b)
    \/ \E f \in file_system.conf_files : set_conf_from_file(f)
    \/ \E m \in Confs, n \in 1..2 : conf_setattr(m, n)
    \/ \E cs \in SUBSET Confs : component_new(cs)
    \/ \E b \in BaseNames, with_build \in BOOLEAN, ord \in ConfOrders :
          component_standard_configure(b, with_build, ord)

ConfSpec == Init /\ [][ConfNext]_vars

\* the steps of the main thread of a GracefulProcess child
ChildMainRuns ==
    \/ run_wrapper_boot
    \/ beat_sleep
    \/ beat_check_event
    \/ beat_check_alive
    \/ run_wrapper_cleanup
    \/ cleanup_pop
    \/ \E r \in StopOutcomes : cleanup_child(r)
    \/ run_wrapper_returns

\* a GracefulProcess on Windows: its parent, the main thread of the child
\* and the worker thread, which registers children; stops may fail
GracefulNext ==
    \/ platform_system("Windows")
    \/ graceful_start
    \/ graceful_terminate
    \/ run_wrapper_boot
    \/ beat_sleep
    \/ beat_check_event
    \/ beat_check_alive
    \/ worker_ends
    \/ \E ch \in Children : worker_registers(ch)
    \/ run_wrapper_cleanup
    \/ cleanup_pop
    \/ \E r \in StopOutcomes : cleanup_child(r)
    \/ run_wrapper_returns

\* the main thread of the child is scheduled
GracefulSpec == Init /\ [][GracefulNext]_vars /\ WF_vars(ChildMainRuns)

----------------------------------------------------------------------------
TypeOK ==
    /\ children_objects \in Seq(Children \cup {UnknownChild} \cup PoolObjs)
    /\ thread_pool \in PoolObjs \cup {NoPool}
    /\ process_pool \in PoolObjs \cup {NoPool}
    /\ pools_made \in [thread : 0..MaxPoolCalls, process : 0..MaxPoolCalls]
    /\ pool_calls \in 0..MaxPoolCalls
    /\ conf_ops \in 0..MaxConfOps
    /\ conf_last.error \in {"none", "FileNotFoundError", "FileExistsError", "TypeError"}
    /\ conf_last.base \in BaseNames \cup {"none"}
    /\ component.confs \subseteq Confs
    /\ \A m \in Confs :
          /\ conf_hist[m].phase \in {"fresh", "configured", "built", "loaded", "other"}
          /\ configuration[m].was_set_by_user \subseteq conf_keys(m)
          /\ DOMAIN configuration[m].values = conf_keys(m)
    /\ \A f \in file_system.conf_files : f.fullname \in Confs /\ Parent(f.path) \in file_system.dirs
    /\ \A f \in file_system.info_files : Parent(f.path) \in file_system.dirs
    /\ \A d \in file_system.dirs : Parent(d) = <<>> \/ Parent(d) \in file_system.dirs
    /\ pools_returned \in [get_thread_pool : SUBSET PoolObjs,
                           get_process_pool : SUBSET PoolObjs]
    /\ \A th \in Threads :
          /\ pool_call_of[th].fn \in {"none", "get_thread_pool", "get_process_pool"}
          /\ pool_call_of[th].pc \in {"idle", "tp_test", "tp_create", "tp_return",
                                      "pp_test", "pp_create", "pp_register",
                                      "pp_assign", "pp_return"}
          /\ pool_call_of[th].got \in PoolObjs \cup {NoPool}
    /\ reg_order \in Seq(Children)
    /\ drain_snapshot \in Seq(Children \cup {UnknownChild})
    /\ \A i \in DOMAIN stack :
          /\ stack[i].op \in {"cleanup", "exit"}
          /\ stack[i].pc \in {"loop", "stop", "exit"}
          /\ stack[i].child \in Children \cup {UnknownChild, NoChild}
    /\ \A i \in DOMAIN stop_log :
          /\ stop_log[i].child \in Children \cup {UnknownChild}
          /\ stop_log[i].call \in {"terminate", "shutdown", "ProcessManagementError"}
          /\ stop_log[i].raised \in BOOLEAN
    /\ api_error \in {"none", "ProcessManagementError", "StopError", "KeyboardInterrupt"}
    /\ sys_name \in Platforms \cup {"unset"}
    /\ handlers \in [Signals -> {"default", "SIG_IGN", "_default_exit"}]
    /\ exit_call \in [th : Threads \cup {"none"}, is_main_process : BOOLEAN]
    /\ last_signal \in Signals \cup {"none"}
    /\ killed \in BOOLEAN
    /\ wrapper_pc \in LoopPcs \cup {"unstarted", "boot", "cleanup", "draining", "exited"}
    /\ stop_event \in BOOLEAN
    /\ worker_alive \in BOOLEAN
    /\ pid_file.exists \in BOOLEAN
    /\ pid_file.exists => (written \in Pids /\ pid_file.text = str(written))
    /\ ~pid_file.exists => pid_file = Absent
    /\ process_.kind \in {"None", "False", "Process"}
    /\ process_.kind = "Process" => process_.pid \in Pids
    /\ alive \subseteq Pids /\ OwnPid \in alive
    /\ pid_last.ret \in {"None", "True", "False", "value", "FileNotFoundError",
                        "blocked"}
    /\ pid_last.warned \in {"none", "stale_file_removed", "already_gone"}
    /\ guard \in [Pids -> {"idle", "checked", "refused", "registered"}]
    /\ poll \in [op : {"none", "wait_for_on", "wait_for_off"},
                 pc : {"idle", "test", "sleep", "returned"}]
    /\ exited \in BOOLEAN
    /\ signals \in 0..MaxSignals
    /\ error \in {"none", "_AsyncUtilError"}
    /\ waiter \in [Waiters -> [ev : {"none", ON, SHUTTING_DOWN, OFF},
                                st : {"idle", "suspended", "woken", "returned"},
                                owner : {0} \cup Tasks]]
    /\ run_pc \in {"idle", "start", "f", "done", "raised"}
    /\ f_calls \in 0..1
    /\ accepted \in [ShutDownArgs -> 0..MaxStarts]
    /\ interrupted_on \in BOOLEAN
    /\ signal_handlers \in BOOLEAN
    /\ state \in {ON, OFF, SHUTTING_DOWN}
    /\ is_on_event \in BOOLEAN /\ shut_down_event \in BOOLEAN /\ is_off_event \in BOOLEAN
    /\ asc \subseteq Tasks
    /\ shut_down_args \in ShutDownArgs
    /\ pc \in [Starts -> {"idle", "setup", "wait", "woken", "async_cleanup", "drain", "done", "raised"}]
    /\ drain_fs \in [Starts -> SUBSET Tasks]
    /\ wait_result \in [done : SUBSET Tasks, pending : SUBSET Tasks]
    /\ task \in [Tasks -> {"none", "running", "done", "cancelled"}]
    /\ store_pc \in [Tasks -> {"none", "scheduled", "waiting", "gone"}]
    /\ logged \subseteq {WarnStart, WarnShutDown, WarnPending, CritTask}
    /\ passed_args \in ShutDownArgs \cup {"none"}

----------------------------------------------------------------------------
\* the steps of one shutdown sequence, in the order of the code of _shut_down
Rank(e) ==
    CASE e = "async_cleanup_begin" -> 1
      [] e = "async_cleanup_end" -> 2
      [] e = "wait_begin" -> 3
      [] e = "wait_end" -> 4
      [] e = "sync_cleanup_begin" -> 5
      [] e = "sync_cleanup_end" -> 6
      [] e = "off" -> 7

Has(ev, e) == \E i \in 1..Len(ev) : ev[i] = e

Ordered(ev) ==
    /\ \A i \in 1..(Len(ev) - 1) : Rank(ev[i]) < Rank(ev[i + 1])
    /\ Has(ev, "wait_begin") => Has(ev, "async_cleanup_end")
    /\ Has(ev, "sync_cleanup_begin") =>
          /\ Has(ev, "async_cleanup_end")
          /\ Has(ev, "wait_begin") => Has(ev, "wait_end")
    /\ Has(ev, "off") => Has(ev, "sync_cleanup_end")

\* a start() is being called (its body begins to run)
StartIsCalled == \E c \in Starts, r \in CallOutcomes : start(c, r)

\* some lifecycle has run to its end
SomeLifecycleEnded == \E d \in Starts : pc[d] = "done"

----------------------------------------------------------------------------
\* C1: in every reachable state exactly one of is_on, is_shutting_down and
\* is_off is true.
C1_ExactlyOneFlag ==
    \/ is_on_event /\ ~shut_down_event /\ ~is_off_event
    \/ ~is_on_event /\ shut_down_event /\ ~is_off_event
    \/ ~is_on_event /\ ~shut_down_event /\ is_off_event

C1_Witness ==
    /\ shut_down_event
    /\ \E c \in Starts : pc[c] = "drain"
    /\ \E c \in Starts : pc[c] = "setup"

\* C2: every change of the lifecycle state is off -> on, on -> shutting_down
\* or shutting_down -> off, whatever start() and shut_down() calls are made.
C2_OnlyValidTransitions ==
    [][state' # state =>
         <<state, state'>> \in {<<OFF, ON>>, <<ON, SHUTTING_DOWN>>, <<SHUTTING_DOWN, OFF>>}]_vars

\* C3: in every shutdown sequence _async_cleanup has ended before the wait
\* for the tasks begins, the wait has ended before _sync_cleanup is called,
\* and _sync_cleanup has returned before the state becomes off; the state
\* becomes off only at the end of such a sequence.
C3_ShutdownOrder ==
    /\ [](\A c \in Starts : Ordered(events[c]))
    /\ [][\A c \in Starts : Has(events'[c], "off") /\ ~Has(events[c], "off") =>
             /\ state' = OFF
             /\ pc[c] \in {"async_cleanup", "drain"}
             /\ pc[c] = "async_cleanup" => asc = {}]_vars
    /\ [][state' = OFF /\ state # OFF =>
             \E c \in Starts : Has(events'[c], "off") /\ ~Has(events[c], "off")]_vars

C3_Witness ==
    \E c \in Starts :
        /\ pc[c] = "done"
        /\ events[c] = <<"async_cleanup_begin", "async_cleanup_end", "wait_begin",
                         "wait_end", "sync_cleanup_begin", "sync_cleanup_end", "off">>
        /\ state = OFF

\* C4: one start() with no tracked task, then one shut_down(args) made while
\* on: the state becomes off, and _async_cleanup and _sync_cleanup are each
\* called exactly once, each with the arguments given to shut_down.
C4_CleanShutdown ==
    /\ (state = SHUTTING_DOWN /\ \A t \in Tasks : task[t] = "none") ~>
          (/\ state = OFF
           /\ calls.async_cleanup = 1 /\ calls.sync_cleanup = 1
           /\ hook_args.async_cleanup = passed_args
           /\ hook_args.sync_cleanup = passed_args)
    /\ [](calls.async_cleanup <= 1 /\ calls.sync_cleanup <= 1)
    /\ [](pc[1] = "done" =>
             /\ state = OFF
             /\ calls.async_cleanup = 1 /\ calls.sync_cleanup = 1
             /\ hook_args.async_cleanup = passed_args
             /\ hook_args.sync_cleanup = passed_args)

C4_Witness ==
    /\ pc[1] = "done"
    /\ state = OFF
    /\ \A t \in Tasks : task[t] = "none"
    /\ passed_args = "a"
    /\ hook_args = [async_cleanup |-> "a", sync_cleanup |-> "a"]

C6_NoSecondSetup ==
    [][(StartIsCalled /\ is_on_event) =>
          (WarnStart \in logged' /\ calls'.setup = calls.setup)]_vars

\* C7: shut_down called while off or shutting_down changes neither the state
\* nor the three flags nor the stored arguments; the stored arguments change
\* to those of a shut_down call only from the on state.
C7_RefusedShutDownIsNoOp ==
    /\ [][(WarnShutDown \in logged') =>
             (~is_on_event /\ UNCHANGED <<state, flags, shut_down_args, pc>>)]_vars
    /\ [][(\E a \in ShutDownArgs : shut_down(a)) /\ ~is_on_event =>
             (WarnShutDown \in logged' /\ UNCHANGED <<state, flags, shut_down_args, pc>>)]_vars
    /\ [][(shut_down_args' # shut_down_args /\ shut_down_args' # EmptyArgs) =>
             is_on_event]_vars
    /\ [][(state' = SHUTTING_DOWN /\ state # SHUTTING_DOWN) => is_on_event]_vars

C7_Witness ==
    /\ logged = {WarnShutDown}
    /\ state = SHUTTING_DOWN
    /\ shut_down_args = "a"
    /\ \E c \in Starts : pc[c] = "async_cleanup"

\* C8: when the wait for N tracked tasks ends with K of them done, the
\* sequence still reaches off, _sync_cleanup is called exactly once, and the
\* warning lists exactly the N-K tasks that are still pending.
C8_StragglersListed ==
    /\ [][(pc[1] = "drain" /\ pc'[1] # "drain") =>
             LET stragglers == {t \in drain_fs[1] : task[t] = "running"} IN
             /\ state' = OFF
             /\ calls'.sync_cleanup = 1
             /\ wait_result'.pending = stragglers
             /\ wait_result'.done = drain_fs[1] \ stragglers
             /\ (WarnPending \in logged') = (stragglers # {})]_vars
    /\ (pc[1] = "drain") ~> (state = OFF)
    /\ [](calls.sync_cleanup <= 1)

C8_Witness ==
    /\ pc[1] = "done"
    /\ state = OFF
    /\ logged = {WarnPending}
    /\ wait_result.pending # {}
    /\ wait_result.done # {}
    /\ calls.sync_cleanup = 1

\* C9: a task still pending when the wait times out is never cancelled: when
\* the state becomes off it is still running and still in the tracked set,
\* and it stays in the set for as long as it runs.
C9_StragglersNotCancelled ==
    /\ [](\A t \in Tasks : task[t] # "cancelled")
    /\ [][\A c \in Starts : (pc[c] = "drain" /\ pc'[c] = "done") =>
             (\A t \in wait_result'.pending : (task'[t] = "running" /\ t \in asc'))]_vars
    /\ [][\A t \in asc : task'[t] = "running" => t \in asc']_vars

C9_Witness ==
    /\ state = OFF
    /\ \E c \in Starts : pc[c] = "done" /\ Has(events[c], "wait_end")
    /\ \E t \in wait_result.pending : task[t] = "running" /\ t \in asc

\* C10 (as claimed): when start() is called in the off state after a
\* lifecycle has ended, the tracked-task set is empty and the stored
\* shutdown arguments are empty.
C10_FreshLifecycle ==
    [][(StartIsCalled /\ is_off_event /\ SomeLifecycleEnded) =>
          (asc = {} /\ shut_down_args = EmptyArgs)]_vars

\* C10 (amended): when start() is called in the off state after a lifecycle
\* has ended, the stored shutdown arguments are empty; the tracked-task set
\* is not reset, it holds the tasks not yet removed by _store_and_clear_task.
C10_ArgsClearedTasksKept ==
    /\ [][(StartIsCalled /\ is_off_event /\ SomeLifecycleEnded) =>
             (/\ shut_down_args = EmptyArgs
              /\ asc = {t \in Tasks : store_pc[t] = "waiting"}
              /\ asc' = asc)]_vars
    /\ [](is_off_event => shut_down_args = EmptyArgs)

C10_Witness ==
    /\ pc[1] = "done"
    /\ pc[2] = "setup"
    /\ state = OFF
    /\ logged = {}
    /\ passed_args = "a"
    /\ Has(events[1], "wait_end")
    /\ \E t \in asc : task[t] = "running" /\ store_pc[t] = "waiting"

\* C11 (as claimed): a task spawned with _ensure_future or
\* _call_and_ensure_future is in the tracked set from the moment the spawn
\* call returns until the task is done.
C11_TrackedFromSpawn ==
    \A t \in Tasks : task[t] = "running" => t \in asc

\* C12: shut_down() called from inside a running tracked task while the
\* system is on returns at once (the task goes on running) with the state
\* shutting_down, and from shutting_down the state always reaches off, even
\* if the calling task waits for off or never ends, the wait for the tasks
\* being bounded by the timeout.
C12_ShutDownFromTask ==
    /\ [][\A t \in Tasks :
             (shut_down_from_task(t, EmptyArgs) /\ is_on_event) =>
                 (state' = SHUTTING_DOWN /\ task'[t] = "running")]_vars
    /\ (state = SHUTTING_DOWN) ~> (state = OFF)

\* the task that called shut_down is suspended in wait_for_off while the
\* shutdown sequence waits for it
C12_Witness ==
    /\ state = SHUTTING_DOWN
    /\ pc[1] = "drain"
    /\ \E t \in drain_fs[1], w \in Waiters :
          /\ task[t] = "running"
          /\ waiter[w] = [ev |-> OFF, st |-> "suspended", owner |-> t]

\* C13: when _setup rejects the arguments of start(), start() ends with
\* _AsyncUtilError and not with TypeError, the state is unchanged and, for
\* the only start() of a system, stays off: no event of the on state is set
\* and neither cleanup hook is called.
C13_SetupMismatch ==
    /\ [][(\E c \in Starts : start(c, "TypeError")) =>
             (error' = "_AsyncUtilError" /\ state' = state /\ UNCHANGED flags)]_vars
    /\ []((pc[1] = "raised" /\ events[1] = <<>>) =>
             (/\ state = OFF
              /\ ~is_on_event
              /\ calls.async_cleanup = 0
              /\ calls.sync_cleanup = 0))
    /\ [](error # "TypeError")

C13_Witness ==
    /\ error = "_AsyncUtilError"
    /\ pc[1] = "raised"
    /\ events[1] = <<>>
    /\ calls.setup = 1
    /\ state = OFF

\* C14: run(f, handle_signals) calls f once, and only after
\* run_until_complete(self.start()) has ended, be it that start() returned or
\* that KeyboardInterrupt or ProcessExit interrupted the loop.
C14_FOnceAfterStart ==
    /\ [](run_pc \in {"idle", "start"} => f_calls = 0)
    /\ [](run_pc \in {"f", "done"} => f_calls = 1)
    /\ [][(\E o \in {"returned", "KeyboardInterrupt", "ProcessExit"} :
                run_start_ends(o)) => (f_calls' = 1 /\ run_pc' = "f")]_vars

\* f was called after an interruption that left start() waiting for shut_down
C14_Witness ==
    /\ run_pc = "done"
    /\ f_calls = 1
    /\ pc[1] = "wait"
    /\ state = ON

\* C15: a waiter called while its state holds returns at once; a waiter is
\* never left suspended once its state has been entered; and a waiter that
\* was suspended when the state was entered eventually returns, even if the
\* state has been left before it runs.
C15_WaitersResolve ==
    /\ [][\A w \in Waiters, e \in {ON, SHUTTING_DOWN, OFF}, o \in {0} \cup Tasks :
             (wait_for(w, e, o) /\ EventIsSet(e)) => waiter'[w].st = "returned"]_vars
    /\ [](\A w \in Waiters :
             waiter[w].st = "suspended" => ~EventIsSet(waiter[w].ev))
    /\ \A w \in Waiters : (waiter[w].st = "woken") ~> (waiter[w].st = "returned")

\* a waiter was woken and its state has been left before it runs
C15_Witness ==
    \E w \in Waiters :
        /\ waiter[w].st = "woken"
        /\ ~EventIsSet(waiter[w].ev)

\* no element occurs twice in list l
NoDup(l) == \A i, j \in DOMAIN l : l[i] = l[j] => i = j

\* the child that the running _cleanup_children has popped and not yet stopped
Popped == IF Top.pc = "stop" THEN <<Top.child>> ELSE <<>>

\* C16: whatever register_child_for_cleanup and unregister_child_for_cleanup
\* calls are made, the registry holds each child registered and not since
\* unregistered (or popped by a drain) once, in the order of registration;
\* registering a child that is in the registry and unregistering one that is
\* not leave the registry as it is and raise nothing.
C16_RegistryHoldsRegistered ==
    /\ [](children_objects = reg_order /\ NoDup(children_objects))
    /\ [][\A th \in Threads, ch \in Children :
             (register_child_for_cleanup(th, ch) /\ ch \in Elems(children_objects)) =>
                 (children_objects' = children_objects /\ api_error' = "none")]_vars
    /\ [][\A th \in Threads, ch \in Children :
             (unregister_child_for_cleanup(th, ch) /\ ch \notin Elems(children_objects)) =>
                 (children_objects' = children_objects /\ api_error' = "none")]_vars

\* child 1 was registered before child 2, unregistered and registered again
C16_Witness ==
    /\ children_objects = <<2, 1>>
    /\ stop_log = <<>>
    /\ stack = <<>>

\* C17: a call of _cleanup_children that returns leaves the registry empty
\* and has called terminate() on each process and shutdown() on each pool
\* that was registered, once each, the most recently registered first.
C17_CleanupStopsAllInReverse ==
    /\ [][(cleanup_pop /\ Len(children_objects) = 0) =>
             (/\ stop_log = ExpectedStops(drain_snapshot)
              /\ children_objects' = <<>>)]_vars
    /\ [](stack # <<>> =>
             ExpectedStops(drain_snapshot) =
                 stop_log \o ExpectedStops(children_objects \o Popped))

\* a drain of a process and of a pool has returned
C17_Witness ==
    /\ stack = <<>>
    /\ children_objects = <<>>
    /\ Len(drain_snapshot) >= 2
    /\ stop_log = ExpectedStops(drain_snapshot)
    /\ \E i, j \in DOMAIN stop_log :
          stop_log[i].call = "terminate" /\ stop_log[j].call = "shutdown"

\* C18: registering an object that is neither a process nor a pool raises
\* ProcessManagementError and leaves the registry as it is.
C18_UnknownChildRefused ==
    /\ [][\A th \in Threads :
             register_child_for_cleanup(th, UnknownChild) =>
                 (/\ api_error' = "ProcessManagementError"
                  /\ children_objects' = children_objects)]_vars
    /\ [](UnknownChild \notin Elems(children_objects))

C18_Witness ==
    /\ api_error = "ProcessManagementError"
    /\ Len(children_objects) > 0
    /\ stack = <<>>

\* C19 (as claimed): when terminate() or shutdown() of a child raises
\* during the drain, _cleanup_children raises nothing and goes on with the
\* children that remain.
C19_StopErrorSwallowed ==
    [][(\E r \in StopOutcomes : cleanup_child(r)) =>
          (api_error' = "none" /\ stack' # <<>>)]_vars

\* C20 (as claimed): when the process has exited through _default_exit, no
\* child is left in the registry and no child was popped without being
\* stopped, whatever registrations and signals came in between.
C20_AllStoppedAtExit ==
    exited =>
        /\ children_objects = <<>>
        /\ \A i \in DOMAIN stack : stack[i].pc # "stop"

\* C21 (as claimed): where register_exit installed the main-process role, a
\* handler started by a signal goes on until it has drained the registry and
\* called sys.exit(0), and at the exit no drain has a child popped and not
\* stopped.
C21_InterruptDrainsThenExits ==
    [][(handlers["SIGINT"] = "_default_exit") =>
          /\ (stack # <<>> => stack' # <<>>)
          /\ ((exited' /\ ~exited) => \A i \in DOMAIN stack : stack[i].pc # "stop")]_vars

C23_OtherThreadNoOp ==
    [][\A imp \in BOOLEAN :
          register_exit("aux", imp) => handlers' = handlers]_vars

\* the main thread installed the main-process role; the other thread then
\* called register_exit with the worker role
C23_Witness ==
    /\ exit_call = [th |-> "aux", is_main_process |-> FALSE]
    /\ handlers["SIGINT"] = "_default_exit"
    /\ sys_name = "Linux"

\* C24 (as claimed): on Windows, when the main thread of the GracefulProcess
\* child exits, the registry of the child is empty and every child that was
\* in it when the drain began has been stopped, whatever the worker thread
\* registered in between.
C24_NestedRegistryDrainedAtExit ==
    wrapper_pc = "exited" =>
        /\ children_objects = <<>>
        /\ stop_log = ExpectedStops(drain_snapshot)

\* C25: on Windows, once terminate() was called on a started
\* GracefulProcess, or once the worker thread has finished, the main thread
\* of the child leaves the polling loop, calls _cleanup_children and exits;
\* the loop is left only with the stop event set or the worker finished, and
\* the exit comes only after the call of _cleanup_children has ended.
C25_StopRequestEndsChild ==
    /\ (wrapper_pc # "unstarted" /\ stop_event) ~> (wrapper_pc = "exited")
    /\ (wrapper_pc \in LoopPcs /\ ~worker_alive) ~> (wrapper_pc = "exited")
    /\ [][(wrapper_pc \in LoopPcs /\ wrapper_pc' \notin LoopPcs) =>
             (wrapper_pc' = "cleanup" /\ (stop_event \/ ~worker_alive))]_vars
    /\ [][(wrapper_pc' = "exited" /\ wrapper_pc # "exited") =>
             (wrapper_pc = "draining" /\ stack = <<>>)]_vars

\* the child was asked to stop while its worker was running, and has exited
\* after a drain that stopped one child
C25_Witness ==
    /\ wrapper_pc = "exited"
    /\ stop_event
    /\ worker_alive
    /\ Len(stop_log) > 0
    /\ api_error = "none"

\* the PID file holds the id of a process that does not run
Stale == pid_file.exists /\ written \notin alive

\* C26: right after register() the file exists, is_on and exists() return
\* True and get() returns the process id that register wrote; whenever the
\* file exists, get() returns the process id last written to it.
C26_RegisterThenGet ==
    /\ [](pid_last.op = "register" => pid_file.exists)
    /\ [][\A w \in {"exists", "is_on"} :
             (pid_exists(w) /\ pid_last.op = "register") => pid_last'.ret = "True"]_vars
    /\ [][(pid_get /\ pid_last.op = "register") =>
             (pid_last'.ret = "value" /\ pid_last'.val = OwnPid)]_vars
    /\ [][(pid_get /\ pid_file.exists) =>
             (pid_last'.ret = "value" /\ pid_last'.val = written)]_vars

\* get() has returned the id, of two digits, that register() wrote
C26_Witness ==
    /\ pid_last.op = "get"
    /\ pid_last.ret = "value"
    /\ pid_last.val = OwnPid
    /\ Len(pid_file.text) > 1

\* C27: right after remove() there is no file and is_on returns False;
\* remove() where there is no file calls nothing, raises nothing and leaves
\* the path as it is.
C27_RemoveIdempotent ==
    /\ [](pid_last.op = "remove" => (~pid_file.exists /\ pid_last.ret = "None"))
    /\ [][\A w \in {"exists", "is_on"} :
             (pid_exists(w) /\ pid_last.op = "remove") => pid_last'.ret = "False"]_vars
    /\ [][(pid_remove /\ ~pid_file.exists) =>
             (/\ pid_file' = pid_file
              /\ pid_last'.ret = "None"
              /\ ~pid_last'.removed)]_vars

\* remove() was called where a file had been written and removed before
C27_Witness ==
    /\ pid_last.op = "remove"
    /\ ~pid_last.removed
    /\ written # 0
    /\ ~pid_file.exists

\* C28 (as claimed): is_on / exists() called while the file holds the id of
\* a process that does not run returns False and deletes the file.
C28_StaleFileRemovedByIsOn ==
    [][\A w \in {"exists", "is_on"} :
          (pid_exists(w) /\ Stale) => (pid_last'.ret = "False" /\ ~pid_file'.exists)]_vars

\* C28 (amended): is_on and exists() return whether the file exists and
\* leave it as it is, stale or not; a stale file is deleted, with a warning,
\* when a manager that has not resolved its process yet resolves it (in
\* terminate_process), and from then on is_on returns False.
C28_StaleFileRemovedAtResolution ==
    /\ [][\A w \in {"exists", "is_on"} :
             pid_exists(w) =>
                 (/\ pid_last'.ret = (IF pid_file.exists THEN "True" ELSE "False")
                  /\ pid_file' = pid_file)]_vars
    /\ [][(pid_terminate_process /\ Stale /\ process_ = ProcessNone) =>
             (/\ ~pid_file'.exists
              /\ process_' = ProcessFalse
              /\ pid_last'.warned = "stale_file_removed"
              /\ pid_last'.ret = "None")]_vars
    /\ [][\A w \in {"exists", "is_on"} :
             (pid_exists(w) /\ pid_last.warned = "stale_file_removed") =>
                 pid_last'.ret = "False"]_vars

\* the process whose id another manager wrote has ended, and the resolution
\* of terminate_process has removed the file
C28_Witness ==
    /\ pid_last.op = "terminate_process"
    /\ pid_last.warned = "stale_file_removed"
    /\ pid_last.removed
    /\ ~pid_file.exists
    /\ written \notin alive
    /\ process_ = ProcessFalse

\* C29 (as claimed): get() where there is no file raises
\* ProcessManagementError and creates no file.
C29_GetWithoutFile ==
    [][(pid_get /\ ~pid_file.exists) =>
          (pid_last'.ret = "ProcessManagementError" /\ ~pid_file'.exists)]_vars

\* C30 (as claimed): terminate_process() called while the file is absent or
\* stale raises nothing, and there is no file afterwards.
C30_TerminateUnresolvedSilent ==
    [][(pid_terminate_process /\ (~pid_file.exists \/ Stale)) =>
          (pid_last'.ret = "None" /\ ~pid_file'.exists)]_vars

\* C31: wait_for_on returns only where is_on is true and wait_for_off only
\* where is_on is false (so neither returns while is_on keeps the opposite
\* value), and each returns once is_on has the awaited value and keeps it.
C31_PollReturnsOnAwaitedValue ==
    /\ [][(poll.pc # "returned" /\ poll'.pc = "returned") =>
             /\ poll.op = "wait_for_on" => (pid_file.exists /\ pid_file'.exists)
             /\ poll.op = "wait_for_off" => (~pid_file.exists /\ ~pid_file'.exists)]_vars
    /\ []<>~(poll.op = "wait_for_on" /\ poll.pc # "returned" /\ pid_file.exists)
    /\ []<>~(poll.op = "wait_for_off" /\ poll.pc # "returned" /\ ~pid_file.exists)

C31_Witness ==
    /\ poll = [op |-> "wait_for_off", pc |-> "returned"]
    /\ pid_last.op = "other"
    /\ ~pid_file.exists
    /\ written \in Pids \ {OwnPid}

\* C32: every call of get_thread_pool returns the same instance and so does
\* every call of get_process_pool; at most one thread pool and one process
\* pool are ever created, also when threads make the first calls
\* concurrently; the pools in the child registry are the one process pool.
C32_OnePoolPerProcess ==
    /\ Cardinality(pools_returned.get_thread_pool) <= 1
    /\ Cardinality(pools_returned.get_process_pool) <= 1
    /\ pools_made.thread <= 1
    /\ pools_made.process <= 1
    /\ \A i \in DOMAIN children_objects : children_objects[i] = process_pool

\* the component directory of a base holds the info file of the component
InfoWritten(b) ==
    \E f \in file_system.info_files :
        /\ f.path = Join(conf_dir_path(b, ServiceName, ComponentName), INFO)
        /\ f.load_fullname = "COMPONENT"
        /\ f.name = ComponentName

\* C33: Component.standard_configure(base_dir) with build enabled configures
\* and builds every configuration of the component and returns the standard
\* conf directory base_dir/conf/<service>-<name>, which then holds the info
\* file that records the load fullname and the name of the component.
C33_ComponentConfigureBuilds ==
    conf_last.op = "Component.build" =>
        /\ conf_last.error = "none"
        /\ conf_last.ret = conf_dir_path(conf_last.base, ServiceName, ComponentName)
        /\ InfoWritten(conf_last.base)
        /\ \A m \in component.confs :
              /\ conf_hist[m].phase = "built"
              /\ \E f \in file_system.conf_files :
                    /\ f.path = Join(conf_last.ret, <<m>>)
                    /\ f.fullname = m

\* C34: after standard_configure and build for a base directory, the conf
\* file is at base_dir/conf/<service>-<component>/<conf fullname>; the plain
\* fields of the dict that was built are unchanged, its file and directory
\* fields are set to base_dir/<category>/<service>-<component>-<suffix>; and
\* the configuration that set_conf_from_file loads from the file has a dict
\* equal to the dict that was built.
C34_ConfRoundTrip ==
    \A m \in Confs :
        LET h == conf_hist[m]
            p == Join(Join(Join(BasePath(h.base), <<"conf">>),
                           <<ServiceName, ComponentName>>), <<m>>)
        IN h.phase \in {"built", "loaded"} =>
              /\ \E f \in file_system.conf_files : f.path = p /\ f.fullname = m
              /\ \A k \in conf_keys(m) :
                    IF Fields(m)[k].kind = "plain"
                    THEN h.built[k] = h.before[k]
                    ELSE h.built[k] =
                           field_set(Fields(m)[k].setter, h.before[k],
                                     Join(Join(BasePath(h.base), <<Fields(m)[k].category>>),
                                          <<ServiceName, ComponentName, Fields(m)[k].suffix>>))
              /\ h.phase = "loaded" => to_dict(configuration[m]) = h.built

\* the number of shut_down calls that made the transition from on to
\* shutting_down
Accepted == accepted["empty"] + accepted["a"]

\* C35: across any sequence of start() and shut_down() calls, several
\* start() coroutines in flight included, _async_cleanup and _sync_cleanup
\* are each invoked at most as many times as shut_down made the transition
\* from on to shutting_down, and each invocation gets the arguments of such
\* a shut_down call.
C35_CleanupPerAcceptedShutDown ==
    /\ calls.async_cleanup <= Accepted
    /\ calls.sync_cleanup <= Accepted
    /\ \A h \in {"async_cleanup", "sync_cleanup"} :
          hook_args[h] # "uncalled" => accepted[hook_args[h]] > 0

\* C36: when the state becomes off at the end of a shutdown sequence, every
\* task spawned before (by the _async_cleanup hook or by another task
\* during the wait included) is done, or was waited for by the drain and is
\* listed in the warning about pending tasks.
C36_NoTaskSilentlyPending ==
    [][(state # OFF /\ state' = OFF) =>
          \A t \in Tasks : task[t] # "none" =>
              \/ task'[t] = "done"
              \/ t \in wait_result'.pending /\ WarnPending \in logged']_vars

\* C37: a shut_down() made after start() was called and before the state
\* is on is dropped: it stores no arguments and leaves the state off; then
\* start() sets the state on and stays suspended, the state staying on,
\* until a shut_down() made while on resumes it: the early request is
\* never replayed.
C37_EarlyShutDownDropped ==
    /\ [][((\E a \in ShutDownArgs : shut_down(a)) /\ pc[1] = "setup") =>
             /\ state = OFF /\ shut_down_args = EmptyArgs
             /\ WarnShutDown \in logged'
             /\ UNCHANGED <<state, flags, shut_down_args, passed_args, pc>>]_vars
    /\ [][(pc[1] = "setup" /\ pc'[1] \notin {"setup", "raised"}) =>
             (pc'[1] = "wait" /\ state' = ON /\ ~shut_down_event')]_vars
    /\ [][(pc[1] = "wait" /\ (pc'[1] # "wait" \/ state' # ON)) =>
             /\ state = ON
             /\ \E a \in ShutDownArgs : shut_down(a) /\ shut_down_args' = a
             /\ pc'[1] = "woken"]_vars
    /\ [](pc[1] = "wait" => state = ON /\ shut_down_args = EmptyArgs)

C37_Witness ==
    /\ pc[1] = "setup"
    /\ state = OFF
    /\ logged = {WarnShutDown}
    /\ shut_down_args = EmptyArgs
    /\ passed_args = "none"

\* C38 (as claimed): when run_until_complete(self.start()) is interrupted
\* while the state is on, run calls f without running the shutdown sequence:
\* no cleanup hook is called, the tracked tasks are not waited for, and the
\* state is on when f is called, while f runs and when run returns.
C38_InterruptSkipsShutdown ==
    /\ [][(run_pc = "start" /\ run_pc' # "start" /\ pc[1] = "wait") =>
             /\ run_pc' = "f" /\ f_calls' = f_calls + 1
             /\ state' = ON
             /\ UNCHANGED <<calls, events, asc, task, drain_fs, pc>>]_vars
    /\ [][(run_pc = "f" /\ interrupted_on) =>
             (state' = ON /\ UNCHANGED <<calls, events, drain_fs, pc>>)]_vars
    /\ [](interrupted_on => state = ON)

\* C38 (amended): the same, as long as no shut_down() is made while f runs;
\* a start() left suspended by the interruption is on, with no cleanup hook
\* called, when f is called and when run returns.
C38_InterruptSkipsShutdownUnlessAsked ==
    /\ [][(run_pc = "start" /\ run_pc' # "start" /\ pc[1] = "wait") =>
             /\ run_pc' = "f" /\ f_calls' = f_calls + 1
             /\ state' = ON
             /\ UNCHANGED <<calls, events, asc, task, drain_fs, pc>>]_vars
    /\ [][(run_pc = "f" /\ interrupted_on /\ pc[1] = "wait"
              /\ ~(\E a \in ShutDownArgs : shut_down(a))) =>
             (state' = ON /\ UNCHANGED <<calls, events, drain_fs, pc>>)]_vars
    /\ []((interrupted_on /\ pc[1] = "wait") =>
             /\ run_pc \in {"f", "done"}
             /\ state = ON
             /\ calls.async_cleanup = 0 /\ calls.sync_cleanup = 0
             /\ events[1] = <<>>)

C38_Witness ==
    /\ run_pc = "done"
    /\ interrupted_on
    /\ f_calls = 1
    /\ pc[1] = "wait"
    /\ state = ON
    /\ calls.async_cleanup = 0 /\ calls.sync_cleanup = 0
    /\ \E t \in Tasks : task[t] = "running"

\* C39: of the processes that call check_is_off() and then register()
\* on one PID path, at most one has completed register() and not yet
\* removed the file: no two pass the guard and write their id.
C39_OneRegistersAfterGuard ==
    /\ Cardinality({p \in Pids : guard[p] = "registered"}) <= 1
    /\ \A p \in Pids : guard[p] = "registered" =>
          (pid_file.exists /\ int(pid_file.text) = p)

\* C40: a PIDManager resolves its process handle at most once: once the
\* handle is a process or False, no call on the manager and no change of
\* the file changes it; terminate_process() and wait_for_process() act on
\* that process whatever the file holds, and do nothing when it is False.
C40_HandleResolvedOnce ==
    /\ [][(process_ # ProcessNone /\ process_' # process_) =>
             (pid_manager_new /\ process_' = ProcessNone)]_vars
    /\ [][(pid_terminate_process /\ process_.kind = "Process") =>
             /\ pid_last'.sent = (IF process_.pid \in alive THEN process_.pid ELSE 0)
             /\ pid_last'.ret = "None"
             /\ UNCHANGED pid_file]_vars
    /\ [][(pid_wait_for_process /\ process_.kind = "Process") =>
             /\ pid_last'.val = process_.pid
             /\ pid_last'.ret = (IF process_.pid \in alive THEN "blocked" ELSE "None")
             /\ UNCHANGED pid_file]_vars
    /\ [][((pid_terminate_process \/ pid_wait_for_process)
              /\ process_ = ProcessFalse) =>
             /\ pid_last'.sent = 0 /\ pid_last'.val = 0
             /\ pid_last'.ret = "None" /\ pid_last'.warned = "none"
             /\ UNCHANGED pid_file]_vars

C40_Witness ==
    /\ process_.kind = "Process"
    /\ pid_file.exists
    /\ int(pid_file.text) # process_.pid
    /\ int(pid_file.text) \in alive
    /\ pid_last.op = "terminate_process"
    /\ pid_last.sent = process_.pid

====
